---- MODULE Spec2Model ----
(***************************************************************************)
(* go-imap-backup: the backup tool and the three command line tools that   *)
(* change a mailbox.                                                       *)
(*   "backup"    backup tool                         (unnamed/part_001)    *)
(*   "dedup"     duplicates tool that deletes        (unnamed/part_001)    *)
(*   "trash"     duplicates tool that moves to trash (manage-duplicates.go)*)
(*   "delfolder" delete-folder tool                  (unnamed/part_000)    *)
(* A run of one tool is modelled from the end of connection setup to the   *)
(* return of main.  The IMAP session is an external collaborator: every    *)
(* command it is given answers "ok", "invalid" (an error whose text        *)
(* contains "Not logged in") or "error" (any other error).                 *)
(* Text is a tuple of one-character strings.                               *)
(* Spec follows such a run.  SpecSetup starts at connectIMAP and adds the  *)
(* setup of the duplicates tools, SpecEffects follows the messages the     *)
(* server holds while the duplicates are removed, SpecHash is the          *)
(* fingerprint of the trash tool, SpecDelete the delete-folder tool under  *)
(* fairness.                                                               *)
(***************************************************************************)
EXTENDS Integers, Sequences, FiniteSets, TLC

(* ------------------------------ bounds -------------------------------- *)
MaxBoxes == 2       \* delete-folder: mailboxes the server lists
MaxMsgs == 1        \* delete-folder: largest message count a select reports
MaxEmails == 4      \* scanning tools: messages on the server
BatchDedup == 2     \* batchSize of the deleting tool (50), scaled
BatchOther == 3     \* batchSize of the trash and backup tools (100), scaled
ChanCap == 1        \* capacity of the record channel (10), scaled
UintBits == 4       \* width of uint32, scaled
MaxListed == 3      \* duplicates tools: mailboxes the server lists
MaxStored == 3      \* duplicates tools: messages whose flags and UIDs are followed
MaxUid == 4         \* duplicates tools: largest UID of a followed message
MaxParts == 2       \* trash tool: body parts of a message

(* ------------------------- program constants -------------------------- *)
MaxAttempts == 3
EmptyHash == ""
NoChoice == 0 - 1
DoneCap == 1

(* ------------------------------ helpers ------------------------------- *)
SeqsUpTo(S, n) == UNION {[1..k -> S] : k \in 0..n}

Range(s) == {s[i] : i \in 1..Len(s)}

\* the arrangements of the elements of a finite set
Orderings(S) ==
    {q \in [1..Cardinality(S) -> S] : \A i, j \in 1..Cardinality(S) : q[i] = q[j] => i = j}

\* strings.HasPrefix
HasPrefix(s, p) == Len(p) <= Len(s) /\ SubSeq(s, 1, Len(p)) = p

\* strings.Count for a one-character separator
Count(s, c) == Cardinality({i \in 1..Len(s) : s[i] = c})

UpperCase ==
    <<"A", "B", "C", "D", "E", "F", "G", "H", "I", "J", "K", "L", "M",
      "N", "O", "P", "Q", "R", "S", "T", "U", "V", "W", "X", "Y", "Z">>

LowerCase ==
    <<"a", "b", "c", "d", "e", "f", "g", "h", "i", "j", "k", "l", "m",
      "n", "o", "p", "q", "r", "s", "t", "u", "v", "w", "x", "y", "z">>

\* unicode.ToLower on ASCII
LowerChar(c) ==
    IF \E i \in 1..Len(UpperCase) : UpperCase[i] = c
    THEN LowerCase[CHOOSE i \in 1..Len(UpperCase) : UpperCase[i] = c]
    ELSE c

\* strings.ToLower
ToLower(s) == [i \in 1..Len(s) |-> LowerChar(s[i])]

\* strings.Contains
Contains(s, sub) == \E i \in 0..(Len(s) - Len(sub)) : SubSeq(s, i + 1, i + Len(sub)) = sub

\* strings.EqualFold on ASCII
EqualFold(s, t) == ToLower(s) = ToLower(t)

IsSpace(c) == c \in {" ", "\n", "\t", "\r"}

\* strings.TrimSpace
TrimSpace(s) ==
    LET keep == {i \in 1..Len(s) : ~IsSpace(s[i])}
        lo == CHOOSE i \in keep : \A j \in keep : i <= j
        hi == CHOOSE i \in keep : \A j \in keep : j <= i
    IN IF keep = {} THEN <<>> ELSE SubSeq(s, lo, hi)

\* bufio.Reader.ReadString('\n'): the text up to and including the first
\* newline; an error (with the text read so far) when the input ends first
ReadString(in) ==
    LET nl == {i \in 1..Len(in) : in[i] = "\n"}
        first == CHOOSE i \in nl : \A j \in nl : i <= j
    IN IF nl = {} THEN [text |-> in, err |-> TRUE]
       ELSE [text |-> SubSeq(in, 1, first), err |-> FALSE]

Digits == <<"0", "1", "2", "3", "4", "5", "6", "7", "8", "9">>

IsDigit(c) == \E d \in 1..10 : Digits[d] = c

DigitVal(c) == (CHOOSE d \in 1..10 : Digits[d] = c) - 1

RECURSIVE DecVal(_)
DecVal(s) == IF s = <<>> THEN 0 ELSE 10 * DecVal(SubSeq(s, 1, Len(s) - 1)) + DigitVal(s[Len(s)])

\* strconv.Atoi: an optional sign and at least one decimal digit
Atoi(s) ==
    LET signed == s # <<>> /\ s[1] \in {"+", "-"}
        body == IF signed THEN Tail(s) ELSE s
        good == body # <<>> /\ \A i \in 1..Len(body) : IsDigit(body[i])
    IN IF ~good THEN [val |-> 0, err |-> TRUE]
       ELSE [val |-> IF signed /\ s[1] = "-" THEN 0 - DecVal(body) ELSE DecVal(body),
             err |-> FALSE]

(* ------------------------------ inputs -------------------------------- *)
\* what the user may type at a group prompt (the last one ends without newline)
PromptInputs ==
    { <<"1", "\n">>, <<"2", "\n">>, <<" ", "3", " ", "\n">>, <<"4", "\n">>, <<"5", "\n">>,
      <<"0", "\n">>, <<"-", "1", "\n">>, <<"q", "\n">>, <<"Q", "\n">>, <<"s", "\n">>,
      <<"S", "\n">>, <<"a", "\n">>, <<"\n">>, <<"1">>, <<>> }

\* what the user may type at a yes/no prompt
ConfirmInputs ==
    { <<"y", "e", "s", "\n">>, <<"Y", "E", "S", "\n">>, <<" ", "Y", "e", "s", " ", "\r", "\n">>,
      <<"y", "e", "s">>, <<"y", "\n">>, <<"n", "o", "\n">>, <<"y", "e", "s", "s", "\n">>,
      <<"\n">>, <<>> }

Results == {"ok", "invalid", "error"}

Delims == {"/", "."}

\* mailbox names of a server whose hierarchy delimiter is d
NameUniverse(d) ==
    { <<"a">>, <<"a", d, "b">>, <<"a", d, "b", d, "a">>, <<"a", "b">> }

BoxLists(d) ==
    UNION {Orderings(S) : S \in {T \in SUBSET NameUniverse(d) : Cardinality(T) \in 1..MaxBoxes}}

FolderArgs(d) == { <<"a">>, <<"a", d, "b">> }

\* duplicates tools: the mailboxes listMailboxes returned
ScanBoxes == << <<"m">>, <<"n">> >>

\* the trash folder connectIMAP found
TrashName == <<"T", "r", "a", "s", "h">>

\* duplicates tools: the fingerprints messages can have, as hex text stands
\* for them
Hashes == <<"h1", "h2">>

HashSet == {Hashes[i] : i \in 1..Len(Hashes)}

HashIndex(h) == CHOOSE i \in 1..Len(Hashes) : Hashes[i] = h

\* the hashes of all messages, mailbox after mailbox
RECURSIVE Flat(_, _)
Flat(mail, b) == IF b > Len(mail) THEN <<>> ELSE mail[b] \o Flat(mail, b + 1)

\* hashes are opaque: a mailbox store is taken with its hashes named in the
\* order of their first occurrence
FirstSeenOrder(mail) ==
    LET flat == Flat(mail, 1)
    IN \A p \in 1..Len(flat) :
          \A i \in 1..(HashIndex(flat[p]) - 1) : \E q \in 1..(p - 1) : flat[q] = Hashes[i]

MailStores ==
    {mail \in [1..Len(ScanBoxes) -> SeqsUpTo(HashSet, MaxEmails)] :
        Len(Flat(mail, 1)) <= MaxEmails /\ FirstSeenOrder(mail)}

VARIABLES
    tool,            \* which program runs
    dryRun,          \* --dry-run
    autoMode,        \* --auto (dedup only)
    pc,              \* position in main
    outcome,         \* how main ended
    delim,           \* the delimiter the server reports
    srvBoxes,        \* the names the server lists, in its order
    srvMail,         \* duplicates tools: messages of each scanned mailbox
    folderName,      \* delete-folder: the argument
    im_client,       \* im.client: the session handle in use
    si,              \* main: index of the mailbox being scanned
    allEmails,       \* main: allEmails
    duplicateGroups, \* main: duplicateGroups
    gi,              \* main: index of the group being decided
    planned,         \* main: plannedDeletes / plannedMoves
    choices,         \* the keep index decided for each group so far
    typed,           \* what the last group prompt read, until the summary
    answer,          \* what was typed at the confirmation prompt
    toDelete,        \* delete-folder main: mailboxes
    sorted,          \* delete-folder main: sortedMailboxes
    ei,              \* main: index of the action being executed
    step,            \* position inside the action being executed
    attempts,        \* deleteMailbox: attempts
    mboxMessages,    \* deleteMailbox: mbox.Messages of the last select
    result,          \* what the last finished action returned to main
    hist,            \* how each loop iteration of the current action ended
    last,            \* the last command given to a session
    mutated,         \* a mutating command has been given to a session
    stale,           \* handles on which a command failed with "invalid"
    wi,              \* scanMailbox: i, the first sequence number of the window
    emails,          \* scanMailbox: emails
    windows,         \* the windows scanMailbox has asked for in this mailbox
    messages,        \* scanMailbox: what the channel messages holds
    closed,          \* the channel messages is closed
    done,            \* scanMailbox: what the channel done holds
    fetchers,        \* the goroutines that run a fetch
    saved,           \* backup tool: the messages written to files
    listed,          \* duplicates tools: the names the server lists, in its order
    targetFolder,    \* deleting tool: im.targetFolder (TARGET_FOLDER)
    trashbox,        \* trash tool: im.trashbox
    store            \* the messages the server holds in each scanned mailbox

vars == << tool, dryRun, autoMode, pc, outcome, delim, srvBoxes, srvMail, folderName,
           im_client, si, allEmails, duplicateGroups, gi, planned, choices, typed, answer,
           toDelete, sorted, ei, step, attempts, mboxMessages, result, hist, last, mutated, stale,
           wi, emails, windows, messages, closed, done, fetchers, saved,
           listed, targetFolder, trashbox, store >>

\* the state of a mailbox scan
scanVars == << wi, emails, windows, messages, closed, done, fetchers, saved >>

\* what main and the executor hold after the scan
laterVars == << im_client, duplicateGroups, gi, planned, choices, typed, answer, toDelete,
                sorted, ei, attempts, result, hist >>

\* the command line and the server
givenVars == << tool, dryRun, autoMode, delim, srvBoxes, srvMail, folderName, listed,
               targetFolder, trashbox, store >>

\* what connection setup leaves to the run
setupVars == << listed, targetFolder, trashbox >>

NoCall == [cmd |-> "none", mbox |-> <<>>, rw |-> FALSE, sess |-> 0, res |-> "ok", act |-> 0, att |-> 0]

\* the commands that change the mailbox store; a select does when not read-only
IsMutating(c) ==
    \/ c.cmd \in {"store", "uidstore", "expunge", "move", "delete"}
    \/ c.cmd = "select" /\ c.rw

Cmd(cmd, mbox, rw, res) ==
    [cmd |-> cmd, mbox |-> mbox, rw |-> rw, sess |-> im_client, res |-> res, act |-> ei, att |-> attempts]

\* the session is given the commands cs, in order
Issue(cs) ==
    /\ last' = cs[Len(cs)]
    /\ mutated' = (mutated \/ \E i \in 1..Len(cs) : IsMutating(cs[i]))
    /\ stale' = stale \cup {cs[i].sess : i \in {j \in 1..Len(cs) : cs[j].res = "invalid"}}

Init ==
    /\ tool \in {"backup", "dedup", "trash", "delfolder"}
    /\ dryRun \in (IF tool = "backup" THEN {FALSE} ELSE BOOLEAN)
    /\ autoMode \in (IF tool = "dedup" THEN BOOLEAN ELSE {FALSE})
    /\ delim \in (IF tool = "delfolder" THEN Delims ELSE {"/"})
    /\ srvBoxes \in (IF tool = "delfolder" THEN BoxLists(delim)
                     ELSE {ScanBoxes})
    /\ srvMail \in (IF tool = "delfolder" THEN {<<>>}
                    ELSE IF tool = "backup" THEN {mail \in MailStores : Range(Flat(mail, 1)) \subseteq {Hashes[1]}}
                    ELSE MailStores)
    /\ folderName \in (IF tool = "delfolder" THEN FolderArgs(delim) ELSE {<<>>})
    /\ pc = IF tool = "delfolder" THEN "find" ELSE "scan"
    /\ outcome = "running"
    /\ im_client = 0
    /\ si = 1
    /\ allEmails = <<>>
    /\ duplicateGroups = <<>>
    /\ gi = 1
    /\ planned = <<>>
    /\ choices = <<>>
    /\ typed = <<>>
    /\ answer = <<>>
    /\ toDelete = <<>>
    /\ sorted = <<>>
    /\ ei = 0
    /\ step = (IF tool = "delfolder" THEN "idle" ELSE "select")
    /\ attempts = 0
    /\ mboxMessages = 0
    /\ result = "none"
    /\ hist = <<>>
    /\ last = NoCall
    /\ mutated = FALSE
    /\ stale = {}
    /\ wi = 0
    /\ emails = <<>>
    /\ windows = <<>>
    /\ messages = <<>>
    /\ closed = FALSE
    /\ done = <<>>
    /\ fetchers = {}
    /\ saved = {}
    /\ listed = (IF tool = "trash" THEN Append(srvBoxes, TrashName) ELSE srvBoxes)
    /\ targetFolder = <<>>
    /\ trashbox = (IF tool = "trash" THEN TrashName ELSE <<>>)
    /\ store = <<>>


(* --------------------- duplicates tools: setup ------------------------ *)
\* im.excludedFolders of the deleting tool (the one term that is not ASCII,
\* a second spelling of "elements supprimes", is left to the ASCII one)
excludedFolders ==
    << <<"t", "r", "a", "s", "h">>,
       <<"c", "o", "r", "b", "e", "i", "l", "l", "e">>,
       <<"d", "e", "l", "e", "t", "e", "d">>,
       <<"d", "e", "l", "e", "t", "e", "d", " ", "m", "e", "s", "s", "a", "g", "e", "s">>,
       <<"d", "e", "l", "e", "t", "e", "d", " ", "i", "t", "e", "m", "s">>,
       <<"e", "l", "e", "m", "e", "n", "t", "s", " ", "s", "u", "p", "p", "r", "i", "m", "e", "s">>,
       <<"b", "i", "n">>,
       <<"j", "u", "n", "k">>,
       <<"s", "p", "a", "m">>,
       <<"[", "g", "m", "a", "i", "l", "]", "/", "t", "r", "a", "s", "h">>,
       <<"[", "g", "o", "o", "g", "l", "e", " ", "m", "a", "i", "l", "]", "/", "t", "r", "a", "s", "h">>,
       <<"[", "g", "m", "a", "i", "l", "]", "/", "c", "o", "r", "b", "e", "i", "l", "l", "e">>,
       <<"[", "g", "m", "a", "i", "l", "]", "/", "s", "p", "a", "m">>,
       <<"[", "g", "m", "a", "i", "l", "]", "/", "j", "u", "n", "k">> >>

\* isExcludedFolder
isExcludedFolder(name) ==
    \E k \in 1..Len(excludedFolders) : Contains(ToLower(name), excludedFolders[k])

\* trashNames of the trash tool's connectIMAP
trashNames ==
    << <<"T", "r", "a", "s", "h">>,
       <<"T", "R", "A", "S", "H">>,
       <<"C", "o", "r", "b", "e", "i", "l", "l", "e">>,
       <<"D", "e", "l", "e", "t", "e", "d", " ", "I", "t", "e", "m", "s">>,
       <<"[", "G", "m", "a", "i", "l", "]", "/", "T", "r", "a", "s", "h">>,
       <<"[", "G", "o", "o", "g", "l", "e", " ", "M", "a", "i", "l", "]", "/", "T", "r", "a", "s", "h">> >>

IsTrashName(name) == \E k \in 1..Len(trashNames) : EqualFold(name, trashNames[k])

\* the loop of connectIMAP over the listed names: trashbox is the last
\* listed name that is a trash name, "" when there is none
RECURSIVE FindTrash(_, _, _)
FindTrash(names, k, found) ==
    IF k > Len(names) THEN found
    ELSE FindTrash(names, k + 1, IF IsTrashName(names[k]) THEN names[k] ELSE found)

\* a slip: the exclusion terms are looked for in the name as it is written
Keeps_Bug(name) ==
    IF tool = "trash" THEN ~EqualFold(name, trashbox)
    ELSE /\ ~\E k \in 1..Len(excludedFolders) : Contains(name, excludedFolders[k])
         /\ (targetFolder # <<>> => HasPrefix(name, targetFolder))

\* the test of the loop body of listMailboxes: the name is appended to boxes
Keeps(name) ==
    IF tool = "trash" THEN ~EqualFold(name, trashbox)
    ELSE /\ ~isExcludedFolder(name)
         /\ (targetFolder # <<>> => HasPrefix(name, targetFolder))

\* the loop of listMailboxes over the listed names
RECURSIVE Boxes(_, _, _)
Boxes(names, k, boxes) ==
    IF k > Len(names) THEN boxes
    ELSE Boxes(names, k + 1, IF Keeps(names[k]) THEN Append(boxes, names[k]) ELSE boxes)

\* a slip: an empty result is returned when the prefix matches nothing
NoneFound_Bug(boxes) == FALSE

\* "if im.targetFolder != "" && len(boxes) == 0": the deleting tool only
NoneFound(boxes) == tool = "dedup" /\ targetFolder # <<>> /\ Len(boxes) = 0

\* log.Fatalf in main
Fatal ==
    /\ pc' = "done" /\ outcome' = "fatal"
    /\ UNCHANGED << srvBoxes, srvMail, si, step >>

\* connectIMAP of both tools: dial and login, which fail or not, and in the
\* trash tool the listing in which the trash folder is looked for
ConnectIMAP ==
    /\ pc = "connect" /\ tool \in {"dedup", "trash"}
    /\ \E connected \in BOOLEAN, res \in Results :
          IF ~connected
          THEN res = "ok" /\ Fatal /\ UNCHANGED << trashbox, last, mutated, stale >>
          ELSE IF tool = "dedup"
          THEN /\ res = "ok" /\ pc' = "list"
               /\ UNCHANGED << outcome, srvBoxes, srvMail, si, step, trashbox, last, mutated, stale >>
          ELSE /\ Issue(<<Cmd("list", <<>>, FALSE, res)>>)
               /\ IF res # "ok"
                  THEN Fatal /\ UNCHANGED trashbox
                  ELSE /\ trashbox' = FindTrash(listed, 1, <<>>)
                       /\ IF trashbox' = <<>>
                          THEN Fatal
                          ELSE pc' = "list" /\ UNCHANGED << outcome, srvBoxes, srvMail, si, step >>
    /\ UNCHANGED << scanVars, laterVars, tool, dryRun, autoMode, delim, folderName, listed,
                    targetFolder, store, allEmails, mboxMessages >>

\* the messages of the mailboxes main goes on to scan: one in each, all
\* with the same fingerprint
OneEach(boxes) == [b \in 1..Len(boxes) |-> <<Hashes[1]>>]

\* listMailboxes and what main does with its result: it ends the run on an
\* error, and goes on to scan the mailboxes returned
ListMailboxes ==
    /\ pc = "list" /\ tool \in {"dedup", "trash"}
    /\ \E res \in Results :
          LET boxes == Boxes(listed, 1, <<>>)
          IN /\ Issue(<<Cmd("list", <<>>, FALSE, res)>>)
             /\ IF res # "ok" \/ NoneFound(boxes)
                THEN Fatal
                ELSE /\ srvBoxes' = boxes
                     /\ srvMail' = OneEach(boxes)
                     /\ si' = 1
                     /\ IF boxes = <<>>
                        THEN pc' = "group" /\ step' = "idle"
                        ELSE pc' = "scan" /\ step' = "select"
                     /\ UNCHANGED outcome
    /\ UNCHANGED << scanVars, laterVars, tool, dryRun, autoMode, delim, folderName, listed,
                    targetFolder, trashbox, store, allEmails, mboxMessages >>

(* ------------------- duplicates tools: scan and group ----------------- *)
EmailInfo(box, uid, hash) == [Mailbox |-> box, Uid |-> uid, Hash |-> hash]

\* a slip: the scan selects the mailbox read-write
ScanReadOnly_Bug == FALSE

\* the readOnly argument of the select in scanMailbox
ScanReadOnly == TRUE

Scanners == {"backup", "dedup", "trash"}

RECURSIVE Pow2(_)
Pow2(n) == IF n = 0 THEN 1 ELSE 2 * Pow2(n - 1)

\* arithmetic on uint32 wraps around
Uint32(x) == x % Pow2(UintBits)

\* batchSize of the tool that runs
batchSize == IF tool = "dedup" THEN BatchDedup ELSE BatchOther

\* the loop condition "i <= mbox.Messages"
InLoop(i, n) == i <= n

\* "to := i + batchSize - 1; if to > mbox.Messages { to = mbox.Messages }"
WindowTo(i, n, b) == LET to == Uint32(i + b - 1) IN IF to > n THEN n ELSE to

\* "i += batchSize"
NextStart(i, b) == Uint32(i + b)

\* a slip: the records read so far are returned with the error
ScanResult_Bug(found, res) == found

\* what scanMailbox returns beside the status: "return nil, err" on an error
ScanResult(found, res) == IF res = "ok" THEN found ELSE <<>>

\* scanMailbox (backupMailbox) returns to main, which appends the records
\* found to allEmails and goes on with the next mailbox, or leaves the loop
ScanReturn(found) ==
    /\ allEmails' = allEmails \o found
    /\ si' = si + 1
    /\ IF si < Len(srvBoxes)
       THEN pc' = "scan" /\ step' = "select" /\ UNCHANGED outcome
       ELSE IF tool = "backup"
       THEN pc' = "done" /\ step' = "idle" /\ outcome' = "completed"
       ELSE pc' = "group" /\ step' = "idle" /\ UNCHANGED outcome
    /\ wi' = 0 /\ emails' = <<>> /\ windows' = <<>> /\ mboxMessages' = 0
    /\ messages' = <<>> /\ closed' = FALSE /\ done' = <<>>

\* scanMailbox for mailbox si: the read-only select, and the return for a
\* failed select and for an empty mailbox
ScanSelect ==
    /\ pc = "scan" /\ tool \in Scanners /\ step = "select"
    /\ \E res \in Results :
          /\ Issue(<<Cmd("select", srvBoxes[si], ~ScanReadOnly, res)>>)
          /\ IF res # "ok" \/ Len(srvMail[si]) = 0
             THEN ScanReturn(<<>>)
             ELSE /\ mboxMessages' = Len(srvMail[si])
                  /\ wi' = 1
                  /\ emails' = <<>>
                  /\ step' = "window"
                  /\ UNCHANGED << pc, outcome, si, allEmails, windows, messages, closed, done >>
    /\ UNCHANGED << givenVars, laterVars, fetchers, saved >>

\* the head of the window loop: the next window, its two channels and the
\* goroutine that fetches it; or the end of the loop, "return emails, nil"
ScanWindow ==
    /\ pc = "scan" /\ tool \in Scanners /\ step = "window"
    /\ IF InLoop(wi, mboxMessages)
       THEN LET to == WindowTo(wi, mboxMessages, batchSize)
            IN /\ windows' = Append(windows, <<wi, to>>)
               /\ messages' = <<>> /\ closed' = FALSE /\ done' = <<>>
               /\ fetchers' = fetchers \cup {[box |-> si, from |-> wi, to |-> to, next |-> wi,
                                              st |-> "fetch", res |-> "ok"]}
               /\ step' = "range"
               /\ UNCHANGED << pc, outcome, si, allEmails, wi, emails, mboxMessages >>
       ELSE ScanReturn(emails) /\ UNCHANGED fetchers
    /\ UNCHANGED << givenVars, laterVars, saved, last, mutated, stale >>

\* the channels a goroutine writes to are those the scan reads from
IsCurrent(g) == pc = "scan" /\ g.box = si /\ g.from = wi /\ step \in {"range", "status"}

\* client.Fetch in the goroutine: the next record of the window is sent to
\* the channel messages, which takes it when it has room
FetchDeliver ==
    /\ \E g \in fetchers :
          /\ g.st = "fetch" /\ g.next <= g.to /\ IsCurrent(g)
          /\ Len(messages) < ChanCap
          /\ messages' = Append(messages, g.next)
          /\ fetchers' = (fetchers \ {g}) \cup {[g EXCEPT !.next = g.next + 1]}
    /\ UNCHANGED << givenVars, laterVars, pc, outcome, si, allEmails, step, mboxMessages,
                    wi, emails, windows, closed, done, saved, last, mutated, stale >>

\* a slip: the channel is left open when the fetch fails
ClosesOnReturn_Bug(res) == res = "ok"

\* client.Fetch closes the channel it was given when it returns, whatever
\* it returns
ClosesOnReturn(res) == TRUE

\* client.Fetch returns: with success after the last record of the window,
\* with an error at any moment; it closes the channel messages
FetchReturn ==
    /\ \E g \in fetchers, res \in Results :
          /\ g.st = "fetch"
          /\ (res = "ok" => g.next > g.to)
          /\ Issue(<<Cmd("fetch", srvBoxes[g.box], FALSE, res)>>)
          /\ closed' = (closed \/ (IsCurrent(g) /\ ClosesOnReturn(res)))
          /\ fetchers' = (fetchers \ {g}) \cup {[g EXCEPT !.st = "returned", !.res = res]}
    /\ UNCHANGED << givenVars, laterVars, pc, outcome, si, allEmails, step, mboxMessages,
                    wi, emails, windows, messages, done, saved >>

\* "done <- ...": the goroutine sends the status and ends
SendDone ==
    /\ \E g \in fetchers :
          /\ g.st = "returned"
          /\ IF IsCurrent(g)
             THEN Len(done) < DoneCap /\ done' = Append(done, g.res)
             ELSE UNCHANGED done
          /\ fetchers' = fetchers \ {g}
    /\ UNCHANGED << givenVars, laterVars, pc, outcome, si, allEmails, step, mboxMessages,
                    wi, emails, windows, messages, closed, saved, last, mutated, stale >>

\* one iteration of "for msg := range messages": a record with a usable body
\* is appended to emails (saved to a file by the backup tool), another one is
\* skipped
ScanReceive ==
    /\ pc = "scan" /\ tool \in Scanners /\ step = "range"
    /\ messages # <<>>
    /\ \E usable \in BOOLEAN :
          LET k == Head(messages)
          IN IF tool = "backup"
             THEN /\ saved' = (IF usable THEN saved \cup {<<si, k>>} ELSE saved)
                  /\ UNCHANGED emails
             ELSE /\ emails' = (IF usable
                                THEN Append(emails, EmailInfo(srvBoxes[si], k, srvMail[si][k]))
                                ELSE emails)
                  /\ UNCHANGED saved
    /\ messages' = Tail(messages)
    /\ UNCHANGED << givenVars, laterVars, pc, outcome, si, allEmails, step, mboxMessages,
                    wi, windows, closed, done, fetchers, last, mutated, stale >>

\* the range loop ends when the channel is closed and empty
ScanDrained ==
    /\ pc = "scan" /\ tool \in Scanners /\ step = "range"
    /\ messages = <<>> /\ closed
    /\ step' = "status"
    /\ UNCHANGED << givenVars, laterVars, pc, outcome, si, allEmails, mboxMessages,
                    scanVars, last, mutated, stale >>

\* a slip: the status is not waited for
StatusReady_Bug(d) == TRUE

\* "<-done" waits until the channel holds a value
StatusReady(d) == d # <<>>

\* "if err := <-done; err != nil { return nil, err }", else the next window
ScanStatus ==
    /\ pc = "scan" /\ tool \in Scanners /\ step = "status"
    /\ StatusReady(done)
    /\ LET res == IF done = <<>> THEN "ok" ELSE Head(done)
       IN IF res = "ok"
          THEN /\ wi' = NextStart(wi, batchSize)
               /\ step' = "window"
               /\ done' = IF done = <<>> THEN done ELSE Tail(done)
               /\ UNCHANGED << pc, outcome, si, allEmails, mboxMessages, emails, windows,
                               messages, closed >>
          ELSE ScanReturn(ScanResult(emails, res))
    /\ UNCHANGED << givenVars, laterVars, fetchers, saved, last, mutated, stale >>

\* hashMap[h] of findDuplicates
Bucket(records, h) == SelectSeq(records, LAMBDA e : e.Hash = h)

\* the keys of hashMap; the deleting tool leaves out the empty hash
HashKeys(records) ==
    {records[i].Hash : i \in {j \in 1..Len(records) : tool = "trash" \/ records[j].Hash # EmptyHash}}

\* a slip: a bucket of one record is emitted as a group too
MoreThanOne_Bug(duplicates) == Len(duplicates) >= 1

\* "if len(duplicates) > 1"
MoreThanOne(duplicates) == Len(duplicates) > 1

\* findDuplicates(records): one group for each bucket of more than one record;
\* the groups come in the order in which "range hashMap" visits the keys,
\* which Go leaves unspecified: every arrangement is a possible return value
findDuplicates(records) ==
    LET dup == {h \in HashKeys(records) : MoreThanOne(Bucket(records, h))}
    IN {[i \in 1..Len(order) |-> [Emails |-> Bucket(records, order[i]), Hash |-> order[i]]] :
           order \in Orderings(dup)}

\* main: duplicateGroups := findDuplicates(allEmails)
FindDuplicates ==
    /\ pc = "group"
    /\ duplicateGroups' \in findDuplicates(allEmails)
    /\ gi' = 1
    /\ pc' = IF duplicateGroups' = <<>> THEN "summary" ELSE "plan"
    /\ UNCHANGED << scanVars, setupVars, store, tool, typed, choices, dryRun, autoMode, outcome, delim, srvBoxes, srvMail, folderName,
                    im_client, si, allEmails, planned, answer, toDelete, sorted, ei, step,
                    attempts, mboxMessages, result, hist, last, mutated, stale >>

(* ---------------------- duplicates tools: planning -------------------- *)
\* a slip: a number above the group size is accepted
ValidChoice_Bug(num, n) == ~num.err /\ num.val >= 1

\* the negation of "err != nil || choice < 1 || choice > len(group.Emails)"
ValidChoice(num, n) == ~(num.err \/ num.val < 1 \/ num.val > n)

\* a slip: --auto is not looked at
promptForChoice_Bug(n, dry, auto, in) ==
    IF dry THEN <<0, FALSE>>
    ELSE LET rd == ReadString(in)
             input == TrimSpace(rd.text)
             num == Atoi(input)
         IN IF rd.err THEN <<NoChoice, FALSE>>
            ELSE IF input = <<"q">> \/ input = <<"Q">> THEN <<NoChoice, TRUE>>
            ELSE IF input = <<"s">> \/ input = <<"S">> THEN <<NoChoice, FALSE>>
            ELSE IF ~ValidChoice(num, n) THEN <<NoChoice, FALSE>>
            ELSE <<num.val - 1, FALSE>>

\* promptForChoice of the deleting tool: <<choice, quit>>
promptForChoice(n, dry, auto, in) ==
    IF auto THEN <<0, FALSE>>
    ELSE IF dry THEN <<0, FALSE>>
    ELSE LET rd == ReadString(in)
             input == TrimSpace(rd.text)
             num == Atoi(input)
         IN IF rd.err THEN <<NoChoice, FALSE>>
            ELSE IF input = <<"q">> \/ input = <<"Q">> THEN <<NoChoice, TRUE>>
            ELSE IF input = <<"s">> \/ input = <<"S">> THEN <<NoChoice, FALSE>>
            ELSE IF ~ValidChoice(num, n) THEN <<NoChoice, FALSE>>
            ELSE <<num.val - 1, FALSE>>

\* promptForChoice of the trash tool: <<choice, err>>
promptForChoiceTrash(n, dry, in) ==
    IF dry THEN <<0, FALSE>>
    ELSE LET rd == ReadString(in)
             input == TrimSpace(rd.text)
             num == Atoi(input)
         IN IF rd.err THEN <<NoChoice, TRUE>>
            ELSE IF input = <<"s">> \/ input = <<"S">> THEN <<NoChoice, FALSE>>
            ELSE IF ~ValidChoice(num, n) THEN <<NoChoice, TRUE>>
            ELSE <<num.val - 1, FALSE>>

\* a slip: the 0-based choice is compared with a 1-based position
RECURSIVE AppendOthers_Bug(_, _, _, _)
AppendOthers_Bug(acc, records, choice, j) ==
    IF j >= Len(records) THEN acc
    ELSE AppendOthers_Bug(IF j + 1 # choice THEN Append(acc, records[j + 1]) ELSE acc,
                          records, choice, j + 1)

\* the loop "for j, email := range group.Emails { if j != choice { append } }"
RECURSIVE AppendOthers(_, _, _, _)
AppendOthers(acc, records, choice, j) ==
    IF j >= Len(records) THEN acc
    ELSE AppendOthers(IF j # choice THEN Append(acc, records[j + 1]) ELSE acc, records, choice, j + 1)

\* the inputs a prompt can read; none is read when the prompt is not shown
InputsIf(reads, S) == IF reads THEN S ELSE {<<>>}

\* a slip: the early exit is not taken
Breaks_Bug(quit, auto) == FALSE

\* "if quit && !*autoMode { break }"
Breaks(quit, auto) == quit /\ ~auto

\* one iteration of the decision loop of the deleting tool
DecideDedup ==
    /\ pc = "plan" /\ tool = "dedup"
    /\ \E in \in InputsIf(~autoMode /\ ~dryRun, PromptInputs) :
          LET group == duplicateGroups[gi]
              r == promptForChoice(Len(group.Emails), dryRun, autoMode, in)
              choice == r[1]
              quit == r[2]
          IN /\ planned' = IF choice # NoChoice
                           THEN AppendOthers(planned, group.Emails, choice, 0)
                           ELSE planned
             /\ choices' = Append(choices, choice)
             /\ typed' = in
             /\ IF Breaks(quit, autoMode)
                THEN pc' = "summary" /\ UNCHANGED gi
                ELSE /\ gi' = gi + 1
                     /\ pc' = IF gi = Len(duplicateGroups) THEN "summary" ELSE "plan"
    /\ UNCHANGED << scanVars, setupVars, store, tool, dryRun, autoMode, outcome, delim, srvBoxes, srvMail, folderName,
                    im_client, si, allEmails, duplicateGroups, answer, toDelete, sorted,
                    ei, step, attempts, mboxMessages, result, hist, last, mutated, stale >>

\* one iteration of the decision loop of the trash tool
DecideTrash ==
    /\ pc = "plan" /\ tool = "trash"
    /\ \E in \in InputsIf(~dryRun, PromptInputs) :
          LET group == duplicateGroups[gi]
              r == promptForChoiceTrash(Len(group.Emails), dryRun, in)
              choice == r[1]
              err == r[2]
          IN /\ planned' = IF err \/ choice = NoChoice
                           THEN planned
                           ELSE AppendOthers(planned, group.Emails, choice, 0)
             /\ choices' = Append(choices, choice)
             /\ typed' = in
    /\ gi' = gi + 1
    /\ pc' = IF gi = Len(duplicateGroups) THEN "summary" ELSE "plan"
    /\ UNCHANGED << scanVars, setupVars, store, tool, dryRun, autoMode, outcome, delim, srvBoxes, srvMail, folderName,
                    im_client, si, allEmails, duplicateGroups, answer, toDelete, sorted,
                    ei, step, attempts, mboxMessages, result, hist, last, mutated, stale >>

\* a slip: any answer that begins with y is taken for yes
SaysYes_Bug(in) ==
    LET t == TrimSpace(ToLower(ReadString(in).text)) IN t # <<>> /\ t[1] = "y"

\* confirmActions, confirmDeletion, askShowDetails: the read error is dropped
SaysYes(in) == TrimSpace(ToLower(ReadString(in).text)) = <<"y", "e", "s">>

\* a slip: the dry-run report does not return
DryRunReturns_Bug(dry) == FALSE

\* "if *dryRun { ...; return }"
DryRunReturns(dry) == dry

\* main of a duplicates tool after the decision loop: nothing to do, the
\* dry-run report, or confirmActions reading the user's answer
Summary ==
    /\ pc = "summary"
    /\ typed' = <<>>
    /\ IF Len(planned) = 0
       THEN pc' = "done" /\ outcome' = "no actions" /\ UNCHANGED answer
       ELSE IF DryRunReturns(dryRun)
       THEN pc' = "done" /\ outcome' = "dry run" /\ UNCHANGED answer
       ELSE \E in \in ConfirmInputs :
               pc' = "confirmed" /\ answer' = in /\ UNCHANGED outcome
    /\ UNCHANGED << scanVars, setupVars, store, tool, choices, dryRun, autoMode, delim, srvBoxes, srvMail, folderName,
                    im_client, si, allEmails, duplicateGroups, gi, planned, toDelete, sorted,
                    ei, step, attempts, mboxMessages, result, hist, last, mutated, stale >>

\* confirmActions returns and main cancels or starts the execution loop
Confirmed ==
    /\ pc = "confirmed" /\ tool \in {"dedup", "trash"}
    /\ IF SaysYes(answer)
       THEN pc' = "exec" /\ ei' = 1 /\ step' = "select" /\ UNCHANGED outcome
       ELSE pc' = "done" /\ outcome' = "cancelled" /\ UNCHANGED << ei, step >>
    /\ answer' = <<>>
    /\ UNCHANGED << scanVars, setupVars, store, tool, typed, choices, dryRun, autoMode, delim, srvBoxes, srvMail, folderName,
                    im_client, si, allEmails, duplicateGroups, gi, planned, toDelete, sorted,
                    attempts, mboxMessages, result, hist, last, mutated, stale >>

(* --------------------- duplicates tools: execution -------------------- *)
\* a message as the server holds it
Stored(uid, hash, flagged) == [uid |-> uid, hash |-> hash, flagged |-> flagged]

\* the place of the mailbox name among the mailboxes whose messages are
\* followed, 0 when it is none of them
BoxIndex(name) ==
    IF \E b \in DOMAIN store : srvBoxes[b] = name
    THEN CHOOSE b \in DOMAIN store : srvBoxes[b] = name
    ELSE 0

\* the messages of the mailbox name, none when it is not followed
Held(name) == IF BoxIndex(name) = 0 THEN <<>> ELSE store[BoxIndex(name)]

\* the store when the mailbox name holds msgs
InBox(name, msgs) ==
    IF BoxIndex(name) = 0 THEN store ELSE [store EXCEPT ![BoxIndex(name)] = msgs]

\* UID STORE +FLAGS.SILENT (\Deleted) for one UID
FlagUid(msgs, uid) ==
    [k \in 1..Len(msgs) |-> IF msgs[k].uid = uid THEN [msgs[k] EXCEPT !.flagged = TRUE] ELSE msgs[k]]

\* a slip: only the message of the action is expunged
ExpungeAll_Bug(msgs, uid) == SelectSeq(msgs, LAMBDA m : ~(m.flagged /\ m.uid = uid))

\* EXPUNGE: every message that carries \Deleted leaves the mailbox
ExpungeAll(msgs, uid) == SelectSeq(msgs, LAMBDA m : ~m.flagged)

\* a slip: the number is taken for the UID it is
MoveNum_Bug(msgs, num) == SelectSeq(msgs, LAMBDA m : m.uid # num)

\* MOVE for one sequence number: the message at that place leaves the
\* mailbox; no message does when the mailbox has fewer messages
MoveNum(msgs, num) ==
    IF num \in 1..Len(msgs)
    THEN SubSeq(msgs, 1, num - 1) \o SubSeq(msgs, num + 1, Len(msgs))
    ELSE msgs

\* the plan main executes
Plan == IF tool = "delfolder" THEN sorted ELSE planned

\* a slip: main stops at the first action that returns an error
Return_Bug(r, first) ==
    /\ result' = r
    /\ attempts' = 0
    /\ mboxMessages' = 0
    /\ IF ei = Len(Plan) \/ r # "nil"
       THEN pc' = "done" /\ outcome' = "completed" /\ step' = "idle" /\ UNCHANGED ei
       ELSE pc' = "exec" /\ ei' = ei + 1 /\ step' = first /\ UNCHANGED outcome

\* the action in hand returns r to main, which reports it and goes on with
\* the next action of the plan, beginning at its step first
Return(r, first) ==
    /\ result' = r
    /\ attempts' = 0
    /\ mboxMessages' = 0
    /\ IF ei = Len(Plan)
       THEN pc' = "done" /\ outcome' = "completed" /\ step' = "idle" /\ UNCHANGED ei
       ELSE pc' = "exec" /\ ei' = ei + 1 /\ step' = first /\ UNCHANGED outcome

\* deleteEmail: select the mailbox read-write
DeSelect ==
    /\ pc = "exec" /\ tool = "dedup" /\ step = "select"
    /\ \E res \in Results :
          /\ Issue(<<Cmd("select", planned[ei].Mailbox, TRUE, res)>>)
          /\ IF res = "ok"
             THEN step' = "store" /\ UNCHANGED << pc, outcome, ei, attempts, mboxMessages, result >>
             ELSE Return("error", "select")
    /\ UNCHANGED << scanVars, setupVars, store, tool, typed, choices, dryRun, autoMode, delim, srvBoxes, srvMail, folderName, im_client,
                    si, allEmails, duplicateGroups, gi, planned, answer, toDelete, sorted, hist >>

\* deleteEmail: flag the message \Deleted by UID
DeStore ==
    /\ pc = "exec" /\ tool = "dedup" /\ step = "store"
    /\ \E res \in Results :
          /\ Issue(<<Cmd("uidstore", planned[ei].Mailbox, TRUE, res)>>)
          /\ store' = (IF res = "ok"
                       THEN InBox(planned[ei].Mailbox, FlagUid(Held(planned[ei].Mailbox), planned[ei].Uid))
                       ELSE store)
          /\ IF res = "ok"
             THEN step' = "expunge" /\ UNCHANGED << pc, outcome, ei, attempts, mboxMessages, result >>
             ELSE Return("error", "select")
    /\ UNCHANGED << scanVars, setupVars, tool, typed, choices, dryRun, autoMode, delim, srvBoxes, srvMail, folderName, im_client,
                    si, allEmails, duplicateGroups, gi, planned, answer, toDelete, sorted, hist >>

\* deleteEmail: expunge the mailbox
DeExpunge ==
    /\ pc = "exec" /\ tool = "dedup" /\ step = "expunge"
    /\ \E res \in Results :
          /\ Issue(<<Cmd("expunge", planned[ei].Mailbox, TRUE, res)>>)
          /\ store' = (IF res = "ok"
                       THEN InBox(planned[ei].Mailbox, ExpungeAll(Held(planned[ei].Mailbox), planned[ei].Uid))
                       ELSE store)
          /\ Return(IF res = "ok" THEN "nil" ELSE "error", "select")
    /\ UNCHANGED << scanVars, setupVars, tool, typed, choices, dryRun, autoMode, delim, srvBoxes, srvMail, folderName, im_client,
                    si, allEmails, duplicateGroups, gi, planned, answer, toDelete, sorted, hist >>

\* moveToTrash: select the mailbox read-write
MtSelect ==
    /\ pc = "exec" /\ tool = "trash" /\ step = "select"
    /\ \E res \in Results :
          /\ Issue(<<Cmd("select", planned[ei].Mailbox, TRUE, res)>>)
          /\ IF res = "ok"
             THEN step' = "move" /\ UNCHANGED << pc, outcome, ei, attempts, mboxMessages, result >>
             ELSE Return("error", "select")
    /\ UNCHANGED << scanVars, setupVars, store, tool, typed, choices, dryRun, autoMode, delim, srvBoxes, srvMail, folderName, im_client,
                    si, allEmails, duplicateGroups, gi, planned, answer, toDelete, sorted, hist >>

\* moveToTrash: move the message to the trash folder
MtMove ==
    /\ pc = "exec" /\ tool = "trash" /\ step = "move"
    /\ \E res \in Results :
          /\ Issue(<<Cmd("move", planned[ei].Mailbox, TRUE, res)>>)
          /\ store' = (IF res = "ok"
                       THEN InBox(planned[ei].Mailbox, MoveNum(Held(planned[ei].Mailbox), planned[ei].Uid))
                       ELSE store)
          /\ Return(IF res = "ok" THEN "nil" ELSE "error", "select")
    /\ UNCHANGED << scanVars, setupVars, tool, typed, choices, dryRun, autoMode, delim, srvBoxes, srvMail, folderName, im_client,
                    si, allEmails, duplicateGroups, gi, planned, answer, toDelete, sorted, hist >>


(* ----------------------------- delete-folder -------------------------- *)
\* the commands findMailboxesForDeletion gives the session for the listed
\* names from position k on; what[k] says how the first select of name k went
RECURSIVE FindCalls(_, _, _)
FindCalls(k, what, fetchRes) ==
    IF k > Len(srvBoxes) THEN <<>>
    ELSE LET name == srvBoxes[k]
             mine == IF ~HasPrefix(name, folderName) THEN <<>>
                     ELSE IF what[k] \in {"invalid", "error"}
                     THEN <<Cmd("select", name, FALSE, what[k])>>
                     ELSE IF what[k] = "full" /\ dryRun
                     THEN <<Cmd("select", name, FALSE, "ok"), Cmd("select", name, FALSE, "ok"),
                            Cmd("fetch", name, FALSE, fetchRes)>>
                     ELSE <<Cmd("select", name, FALSE, "ok")>>
         IN mine \o FindCalls(k + 1, what, fetchRes)

\* the names findMailboxesForDeletion returns: those that start with the
\* prefix and could be selected, in the order listed
RECURSIVE FindNames(_, _)
FindNames(k, what) ==
    IF k > Len(srvBoxes) THEN <<>>
    ELSE (IF HasPrefix(srvBoxes[k], folderName) /\ what[k] \in {"empty", "full"}
          THEN <<srvBoxes[k]>> ELSE <<>>) \o FindNames(k + 1, what)

\* findMailboxesForDeletion(folderName, dryRun), and main's exit when it fails
FindMailboxes ==
    /\ pc = "find" /\ tool = "delfolder"
    /\ \E listRes \in Results, fetchRes \in Results,
          what \in [1..Len(srvBoxes) -> {"invalid", "error", "empty", "full"}] :
          LET list == Cmd("list", <<>>, FALSE, listRes)
              found == FindNames(1, what)
          IN IF listRes # "ok"
             THEN /\ fetchRes = "ok" /\ \A k \in 1..Len(srvBoxes) : what[k] = "empty"
                  /\ Issue(<<list>>)
                  /\ pc' = "done" /\ outcome' = "fatal"
                  /\ UNCHANGED toDelete
             ELSE /\ (fetchRes # "ok" =>
                        dryRun /\ \E k \in 1..Len(srvBoxes) :
                                     what[k] = "full" /\ HasPrefix(srvBoxes[k], folderName))
                  /\ \A k \in 1..Len(srvBoxes) :
                        ~HasPrefix(srvBoxes[k], folderName) => what[k] = "empty"
                  /\ Issue(<<list>> \o FindCalls(1, what, fetchRes))
                  /\ IF Len(found) = 0
                     THEN pc' = "done" /\ outcome' = "fatal" /\ UNCHANGED toDelete
                     ELSE pc' = "confirm" /\ toDelete' = found /\ UNCHANGED outcome
    /\ UNCHANGED << scanVars, setupVars, store, tool, typed, choices, dryRun, autoMode, delim, srvBoxes, srvMail, folderName, im_client,
                    si, allEmails, duplicateGroups, gi, planned, answer, sorted, ei, step,
                    attempts, mboxMessages, result, hist >>

\* main after the search: the dry-run listing with askShowDetails, or
\* confirmDeletion reading the user's answer
AskDeletion ==
    /\ pc = "confirm" /\ tool = "delfolder"
    /\ \E in \in ConfirmInputs :
          IF DryRunReturns(dryRun)
          THEN pc' = "done" /\ outcome' = "dry run" /\ UNCHANGED answer
          ELSE pc' = "confirmed" /\ answer' = in /\ UNCHANGED outcome
    /\ UNCHANGED << scanVars, setupVars, store, tool, typed, choices, dryRun, autoMode, delim, srvBoxes, srvMail, folderName,
                    im_client, si, allEmails, duplicateGroups, gi, planned, toDelete, sorted,
                    ei, step, attempts, mboxMessages, result, hist, last, mutated, stale >>

\* confirmDeletion returns and main cancels or goes on to sort and delete
ConfirmedDeletion ==
    /\ pc = "confirmed" /\ tool = "delfolder"
    /\ IF SaysYes(answer)
       THEN pc' = "sort" /\ UNCHANGED outcome
       ELSE pc' = "done" /\ outcome' = "cancelled"
    /\ answer' = <<>>
    /\ UNCHANGED << scanVars, setupVars, store, tool, typed, choices, dryRun, autoMode, delim, srvBoxes, srvMail, folderName,
                    im_client, si, allEmails, duplicateGroups, gi, planned, toDelete, sorted,
                    ei, step, attempts, mboxMessages, result, hist, last, mutated, stale >>

\* the key sortMailboxesByDepth compares
Depth(name) == Count(name, "/")

\* what sort.Slice promises for the comparison depthI > depthJ: a
\* rearrangement in which no mailbox comes before a deeper one (it is not
\* promised to keep the order of equals)
IsSortedByDepth(q) == \A i, j \in 1..Len(q) : i < j => Depth(q[i]) >= Depth(q[j])

\* sortMailboxesByDepth
sortMailboxesByDepth(mailboxes) == {q \in Orderings(Range(mailboxes)) : IsSortedByDepth(q)}

\* main: sortedMailboxes := sortMailboxesByDepth(mailboxes)
SortMailboxes ==
    /\ pc = "sort" /\ tool = "delfolder"
    /\ sorted' \in sortMailboxesByDepth(toDelete)
    /\ pc' = "exec" /\ ei' = 1 /\ step' = "loop" /\ attempts' = 0
    /\ UNCHANGED << scanVars, setupVars, store, tool, typed, choices, dryRun, autoMode, outcome, delim, srvBoxes, srvMail, folderName,
                    im_client, si, allEmails, duplicateGroups, gi, planned, answer, toDelete,
                    mboxMessages, result, hist, last, mutated, stale >>


(* --------------------- delete-folder: deleteMailbox ------------------- *)
\* a slip: one iteration too few
LoopRuns_Short(a) == a < MaxAttempts - 1

\* a slip: one iteration too many
LoopRuns_Long(a) == a <= MaxAttempts

\* the loop condition "attempts < 3"
LoopRuns(a) == a < MaxAttempts

\* a slip: every error is taken for a lost session
IsNotLoggedIn_Bug(res) == res # "ok"

\* strings.Contains(err.Error(), "Not logged in")
IsNotLoggedIn(res) == res = "invalid"

\* a slip: the failed command is tried again in place
Continue_Bug(how) ==
    /\ attempts' = attempts + 1
    /\ hist' = Append(hist, how)
    /\ UNCHANGED << pc, outcome, ei, mboxMessages, result, step >>

\* "time.Sleep; continue": attempts++ and back to the loop condition
Continue(how) ==
    /\ attempts' = attempts + 1
    /\ step' = "loop"
    /\ hist' = Append(hist, how)
    /\ UNCHANGED << pc, outcome, ei, mboxMessages, result >>

\* what a step of deleteMailbox does with the answer to its command
AfterCommand(res, next, n) ==
    IF res = "ok"
    THEN /\ step' = next /\ mboxMessages' = n
         /\ UNCHANGED << pc, outcome, ei, attempts, result, hist >>
    ELSE IF IsNotLoggedIn(res)
    THEN Continue("invalid")
    ELSE Return("error", "loop") /\ hist' = Append(hist, "error")

\* deleteMailbox is entered: the first iteration, which does not reconnect
DmBegin ==
    /\ pc = "exec" /\ tool = "delfolder" /\ step = "loop"
    /\ attempts = 0 /\ LoopRuns(attempts)
    /\ step' = "select"
    /\ hist' = <<>>
    /\ UNCHANGED << scanVars, setupVars, store, tool, typed, choices, dryRun, autoMode, pc, outcome, delim, srvBoxes, srvMail,
                    folderName, im_client, si, allEmails, duplicateGroups, gi, planned,
                    answer, toDelete, sorted, ei, attempts, mboxMessages, result, last,
                    mutated, stale >>

\* a slip: after a failed reconnect the iteration goes on with the select
ReconnectFailed_Bug ==
    /\ step' = "select"
    /\ UNCHANGED << pc, outcome, ei, attempts, mboxMessages, result, hist >>

\* "if err := im.reconnect(); err != nil { ...; time.Sleep; continue }"
ReconnectFailed == Continue("noconn")

\* a later iteration starts with reconnect: the old client is logged out,
\* and im.client is replaced only when dial and login succeed
DmReconnect ==
    /\ pc = "exec" /\ tool = "delfolder" /\ step = "loop"
    /\ attempts > 0 /\ LoopRuns(attempts)
    /\ \E connected \in BOOLEAN :
          IF connected
          THEN /\ im_client' = im_client + 1
               /\ step' = "select"
               /\ UNCHANGED << pc, outcome, ei, attempts, mboxMessages, result, hist >>
          ELSE ReconnectFailed /\ UNCHANGED im_client
    /\ UNCHANGED << scanVars, setupVars, store, tool, typed, choices, dryRun, autoMode, delim, srvBoxes, srvMail, folderName,
                    si, allEmails, duplicateGroups, gi, planned, answer, toDelete, sorted,
                    last, mutated, stale >>

\* the loop is left: "failed to delete mailbox after 3 attempts"
DmGiveUp ==
    /\ pc = "exec" /\ tool = "delfolder" /\ step = "loop"
    /\ ~LoopRuns(attempts)
    /\ Return("abandoned", "loop")
    /\ UNCHANGED << scanVars, setupVars, store, tool, typed, choices, dryRun, autoMode, delim, srvBoxes, srvMail, folderName,
                    im_client, si, allEmails, duplicateGroups, gi, planned, answer, toDelete,
                    sorted, hist, last, mutated, stale >>

\* a slip: the mailbox is deleted without being emptied
AfterSelect_Bug(n) == "delete"

\* "if mbox.Messages > 0 { store; expunge }", then the delete
AfterSelect(n) == IF n > 0 THEN "store" ELSE "delete"

\* im.client.Select(name, false)
DmSelect ==
    /\ pc = "exec" /\ tool = "delfolder" /\ step = "select" /\ LoopRuns(attempts)
    /\ \E res \in Results, n \in 0..MaxMsgs :
          /\ (res # "ok" => n = 0)
          /\ Issue(<<Cmd("select", sorted[ei], TRUE, res)>>)
          /\ AfterCommand(res, AfterSelect(n), n)
    /\ UNCHANGED << scanVars, setupVars, store, tool, typed, choices, dryRun, autoMode, delim, srvBoxes, srvMail, folderName,
                    im_client, si, allEmails, duplicateGroups, gi, planned, answer, toDelete,
                    sorted >>

\* im.client.Store(1:Messages, +FLAGS.SILENT \Deleted)
DmStore ==
    /\ pc = "exec" /\ tool = "delfolder" /\ step = "store" /\ LoopRuns(attempts)
    /\ \E res \in Results :
          /\ Issue(<<Cmd("store", sorted[ei], TRUE, res)>>)
          /\ AfterCommand(res, "expunge", mboxMessages)
    /\ UNCHANGED << scanVars, setupVars, store, tool, typed, choices, dryRun, autoMode, delim, srvBoxes, srvMail, folderName,
                    im_client, si, allEmails, duplicateGroups, gi, planned, answer, toDelete,
                    sorted >>

\* im.client.Expunge(nil)
DmExpunge ==
    /\ pc = "exec" /\ tool = "delfolder" /\ step = "expunge" /\ LoopRuns(attempts)
    /\ \E res \in Results :
          /\ Issue(<<Cmd("expunge", sorted[ei], TRUE, res)>>)
          /\ AfterCommand(res, "delete", mboxMessages)
    /\ UNCHANGED << scanVars, setupVars, store, tool, typed, choices, dryRun, autoMode, delim, srvBoxes, srvMail, folderName,
                    im_client, si, allEmails, duplicateGroups, gi, planned, answer, toDelete,
                    sorted >>

\* im.client.Delete(name), and "return nil" when it succeeds
DmDelete ==
    /\ pc = "exec" /\ tool = "delfolder" /\ step = "delete" /\ LoopRuns(attempts)
    /\ \E res \in Results :
          /\ Issue(<<Cmd("delete", sorted[ei], TRUE, res)>>)
          /\ IF res = "ok"
             THEN Return("nil", "loop") /\ hist' = Append(hist, "ok")
             ELSE AfterCommand(res, "delete", mboxMessages)
    /\ UNCHANGED << scanVars, setupVars, store, tool, typed, choices, dryRun, autoMode, delim, srvBoxes, srvMail, folderName,
                    im_client, si, allEmails, duplicateGroups, gi, planned, answer, toDelete,
                    sorted >>

(* --------------------------- specification ---------------------------- *)
Next ==
    \/ ScanSelect
    \/ ScanWindow
    \/ FetchDeliver
    \/ FetchReturn
    \/ SendDone
    \/ ScanReceive
    \/ ScanDrained
    \/ ScanStatus
    \/ FindDuplicates
    \/ DecideDedup
    \/ DecideTrash
    \/ Summary
    \/ Confirmed
    \/ DeSelect
    \/ DeStore
    \/ DeExpunge
    \/ MtSelect
    \/ MtMove
    \/ FindMailboxes
    \/ AskDeletion
    \/ ConfirmedDeletion
    \/ SortMailboxes
    \/ DmBegin
    \/ DmReconnect
    \/ DmGiveUp
    \/ DmSelect
    \/ DmStore
    \/ DmExpunge
    \/ DmDelete

Spec == Init /\ [][Next]_vars

(* ----------------- the duplicates tools from their start -------------- *)
\* the names a server may list
SetupNames ==
    { <<"I", "n">>, <<"W">>, <<"W", "/", "a">>, <<"W", "/", "B", "I", "N">>, <<"w">>, TrashName }

Listings ==
    UNION {Orderings(S) : S \in {T \in SUBSET SetupNames : Cardinality(T) <= MaxListed}}

\* the values TARGET_FOLDER may have
TargetFolders == { <<>>, <<"W">>, <<"X">> }

InitS ==
    /\ tool \in {"dedup", "trash"}
    /\ dryRun \in BOOLEAN /\ autoMode = FALSE /\ delim = "/"
    /\ listed \in Listings
    /\ targetFolder \in (IF tool = "dedup" THEN TargetFolders ELSE {<<>>})
    /\ trashbox = <<>>
    /\ srvBoxes = <<>> /\ srvMail = <<>> /\ store = <<>>
    /\ folderName = <<>>
    /\ pc = "connect" /\ outcome = "running" /\ im_client = 0 /\ si = 1
    /\ allEmails = <<>> /\ duplicateGroups = <<>> /\ gi = 1 /\ planned = <<>>
    /\ choices = <<>> /\ typed = <<>> /\ answer = <<>> /\ toDelete = <<>> /\ sorted = <<>>
    /\ ei = 0 /\ step = "idle" /\ attempts = 0 /\ mboxMessages = 0
    /\ result = "none" /\ hist = <<>>
    /\ last = NoCall /\ mutated = FALSE /\ stale = {}
    /\ wi = 0 /\ emails = <<>> /\ windows = <<>> /\ messages = <<>> /\ closed = FALSE
    /\ done = <<>> /\ fetchers = {} /\ saved = {}

NextS ==
    \/ ConnectIMAP
    \/ ListMailboxes
    \/ ScanSelect
    \/ ScanWindow
    \/ FetchDeliver
    \/ FetchReturn
    \/ SendDone
    \/ ScanReceive
    \/ ScanDrained
    \/ ScanStatus
    \/ FindDuplicates
    \/ DecideDedup
    \/ DecideTrash
    \/ Summary
    \/ Confirmed
    \/ DeSelect
    \/ DeStore
    \/ DeExpunge
    \/ MtSelect
    \/ MtMove

SpecSetup == InitS /\ [][NextS]_vars

(* ------------- the duplicates tools and the server's messages --------- *)
\* the elements of a set of numbers in ascending order
Ascending(S) ==
    CHOOSE q \in [1..Cardinality(S) -> S] : \A i, j \in 1..Cardinality(S) : i < j => q[i] < q[j]

\* the two scanned mailboxes with the UIDs u[1] and u[2]; the messages have
\* the fingerprints h and the \Deleted flags f, mailbox after mailbox
StoreOf(u, h, f) ==
    [b \in 1..2 |->
        LET q == Ascending(u[b])
            off == IF b = 1 THEN 0 ELSE Cardinality(u[1])
        IN [k \in 1..Len(q) |-> Stored(q[k], h[off + k], f[off + k])]]

\* the fingerprints of the stored messages, mailbox after mailbox
HashesOf(st) == [b \in DOMAIN st |-> [k \in 1..Len(st[b]) |-> st[b][k].hash]]

\* mailboxes as the server may hold them when a run starts: UIDs ascend
\* and need not be the sequence numbers, and some other client may have
\* flagged one message \Deleted without expunging it
Stores ==
    {st \in {StoreOf(u, h, f) :
                u \in {v \in [1..2 -> SUBSET (1..MaxUid)] :
                          Cardinality(v[1]) + Cardinality(v[2]) <= MaxStored},
                h \in [1..MaxStored -> HashSet],
                f \in {g \in [1..MaxStored -> BOOLEAN] : Cardinality({k \in 1..MaxStored : g[k]}) <= 1}} :
        FirstSeenOrder(HashesOf(st))}

\* what the scan of mailbox b returns when every message is usable
RECURSIVE Scanned(_, _)
Scanned(st, b) ==
    IF b > Len(st) THEN <<>>
    ELSE [k \in 1..Len(st[b]) |-> EmailInfo(ScanBoxes[b], st[b][k].uid, st[b][k].hash)]
            \o Scanned(st, b + 1)

\* a run that is not a dry run, when the scan loop of main has ended
InitE ==
    /\ tool \in {"dedup", "trash"}
    /\ dryRun = FALSE
    /\ autoMode \in (IF tool = "dedup" THEN BOOLEAN ELSE {FALSE})
    /\ delim = "/"
    /\ store \in Stores
    /\ srvBoxes = ScanBoxes
    /\ srvMail = HashesOf(store)
    /\ allEmails = Scanned(store, 1)
    /\ listed = (IF tool = "trash" THEN Append(srvBoxes, TrashName) ELSE srvBoxes)
    /\ targetFolder = <<>>
    /\ trashbox = (IF tool = "trash" THEN TrashName ELSE <<>>)
    /\ folderName = <<>>
    /\ pc = "group" /\ outcome = "running" /\ im_client = 0 /\ si = Len(ScanBoxes) + 1
    /\ duplicateGroups = <<>> /\ gi = 1 /\ planned = <<>>
    /\ choices = <<>> /\ typed = <<>> /\ answer = <<>> /\ toDelete = <<>> /\ sorted = <<>>
    /\ ei = 0 /\ step = "idle" /\ attempts = 0 /\ mboxMessages = 0
    /\ result = "none" /\ hist = <<>>
    /\ last = NoCall /\ mutated = FALSE /\ stale = {}
    /\ wi = 0 /\ emails = <<>> /\ windows = <<>> /\ messages = <<>> /\ closed = FALSE
    /\ done = <<>> /\ fetchers = {} /\ saved = {}

NextE ==
    \/ FindDuplicates
    \/ DecideDedup
    \/ DecideTrash
    \/ Summary
    \/ Confirmed
    \/ DeSelect
    \/ DeStore
    \/ DeExpunge
    \/ MtSelect
    \/ MtMove

SpecEffects == InitE /\ [][NextE]_vars

(* ------------------ the trash tool: computeEmailHash ------------------ *)
TextPlain == <<"t", "e", "x", "t", "/", "p", "l", "a", "i", "n">>

TextHtml == <<"t", "e", "x", "t", "/", "h", "t", "m", "l">>

Application == <<"a", "p", "p", "l", "i", "c", "a", "t", "i", "o", "n", "/">>

\* a body part as msg.NextPart hands it over: the Content-Type header and
\* the content; a part is broken when NextPart returns an error for it
Part(ctype, body) == [ctype |-> ctype, body |-> body, broken |-> FALSE]

BrokenPart == [ctype |-> <<>>, body |-> <<>>, broken |-> TRUE]

\* the parts messages are made of
Parts ==
    { Part(TextPlain, <<"x">>),
      Part(TextHtml \o <<";", " ", "c", "h", "a", "r", "s", "e", "t", "=", "u", "t", "f", "-", "8">>, <<"y">>),
      Part(Application \o <<"p", "d", "f">>, <<"x">>),
      Part(<<"i", "m", "a", "g", "e", "/", "p", "n", "g">>, <<"y">>),
      BrokenPart }

\* Subject, Date and what else frames a message: its other headers and its
\* MIME boundary
Framings ==
    { [subject |-> <<"s">>, date |-> <<"d">>, framing |-> 1],
      [subject |-> <<"s">>, date |-> <<"d">>, framing |-> 2],
      [subject |-> <<"s">>, date |-> <<"e">>, framing |-> 1],
      [subject |-> <<>>, date |-> <<"d">>, framing |-> 1] }

\* the messages a mailbox may hold
Mails ==
    {[subject |-> fr.subject, date |-> fr.date, framing |-> fr.framing, parts |-> ps] :
        fr \in Framings, ps \in SeqsUpTo(Parts, MaxParts)}

\* sha256 and hex.EncodeToString: the digest stands for the bytes written,
\* two byte strings never have the same one
Sha256(bytes) == <<"sha256">> \o bytes

\* a slip: every part is written to the hash
Hashed_Bug(ctype) == TRUE

\* the cases of the switch on contentType
Hashed(ctype) ==
    \/ HasPrefix(ctype, TextPlain)
    \/ HasPrefix(ctype, TextHtml)
    \/ HasPrefix(ctype, Application)

\* the loop over msg.NextPart from part k on, bytes being what was written
\* to the hash so far
RECURSIVE HashParts(_, _, _)
HashParts(parts, k, bytes) ==
    IF k > Len(parts) THEN [hash |-> Sha256(bytes), err |-> FALSE]
    ELSE IF parts[k].broken THEN [hash |-> <<>>, err |-> TRUE]
    ELSE HashParts(parts, k + 1, IF Hashed(parts[k].ctype) THEN bytes \o parts[k].body ELSE bytes)

\* computeEmailHash
computeEmailHash(msg) == HashParts(msg.parts, 1, msg.subject \o msg.date)

\* the scan of a mailbox of two messages when both records have been
\* fetched and wait in the channel
InitH ==
    /\ tool = "trash"
    /\ dryRun = FALSE /\ autoMode = FALSE /\ delim = "/"
    /\ srvBoxes = <<ScanBoxes[1]>>
    /\ srvMail \in {<< <<a, b>> >> : a \in Mails, b \in Mails}
    /\ store = <<>>
    /\ listed = <<ScanBoxes[1], TrashName>> /\ targetFolder = <<>> /\ trashbox = TrashName
    /\ folderName = <<>>
    /\ pc = "scan" /\ outcome = "running" /\ im_client = 0 /\ si = 1
    /\ allEmails = <<>> /\ duplicateGroups = <<>> /\ gi = 1 /\ planned = <<>>
    /\ choices = <<>> /\ typed = <<>> /\ answer = <<>> /\ toDelete = <<>> /\ sorted = <<>>
    /\ ei = 0 /\ step = "range" /\ attempts = 0 /\ mboxMessages = 2
    /\ result = "none" /\ hist = <<>>
    /\ last = NoCall /\ mutated = FALSE /\ stale = {}
    /\ wi = 1 /\ emails = <<>> /\ windows = << <<1, 2>> >> /\ messages = <<1, 2>>
    /\ closed = TRUE /\ done = <<"ok">> /\ fetchers = {} /\ saved = {}

\* one iteration of "for msg := range messages" of the trash tool: the
\* record is appended to emails with the hash computeEmailHash returns, and
\* skipped when it returns an error
ScanHash ==
    /\ pc = "scan" /\ tool = "trash" /\ step = "range"
    /\ messages # <<>>
    /\ LET k == Head(messages)
           r == computeEmailHash(srvMail[si][k])
       IN emails' = (IF r.err THEN emails
                     ELSE Append(emails, EmailInfo(srvBoxes[si], k, r.hash)))
    /\ messages' = Tail(messages)
    /\ UNCHANGED << givenVars, laterVars, pc, outcome, si, allEmails, step, mboxMessages,
                    wi, windows, closed, done, fetchers, saved, last, mutated, stale >>

NextH == ScanHash

SpecHash == InitH /\ [][NextH]_vars

(* ------------------- the delete-folder tool, running ------------------ *)
\* a run of the delete-folder tool on the folder "a" of a server whose
\* delimiter is "/"
InitD == Init /\ tool = "delfolder" /\ delim = "/" /\ folderName = <<"a">>

NextD ==
    \/ FindMailboxes
    \/ AskDeletion
    \/ ConfirmedDeletion
    \/ SortMailboxes
    \/ DmBegin
    \/ DmReconnect
    \/ DmGiveUp
    \/ DmSelect
    \/ DmStore
    \/ DmExpunge
    \/ DmDelete

\* the program is sequential and none of its calls waits for ever: a run
\* that can take a step takes one
SpecDelete == InitD /\ [][NextD]_vars /\ WF_vars(NextD)

(* ------------------- the scan, goroutine and consumer ----------------- *)
\* a run of a scanning tool up to the end of its scan; the flags of the
\* command line are not read before the scan has ended
InitC == Init /\ tool \in Scanners /\ ~dryRun /\ ~autoMode

\* the foreground of the scan: the window loop and its range loop
Foreground ==
    \/ ScanSelect
    \/ ScanWindow
    \/ ScanReceive
    \/ ScanDrained
    \/ ScanStatus

\* the goroutine of a window: "done <- client.Fetch(...)"
Goroutine ==
    \/ FetchDeliver
    \/ FetchReturn
    \/ SendDone

NextC == Foreground \/ Goroutine

\* the Go scheduler runs a goroutine that can run, the foreground is one;
\* the fetch call returns
SpecScan == InitC /\ [][NextC]_vars /\ WF_vars(Foreground) /\ WF_vars(Goroutine)

(* ------------------- the window loop for any count -------------------- *)
\* the window loop of scanMailbox and backupMailbox taken alone, for every
\* message count a select can report
InitW ==
    /\ tool \in Scanners
    /\ dryRun = FALSE /\ autoMode = FALSE /\ delim = "/"
    /\ srvBoxes = ScanBoxes
    /\ srvMail = [b \in 1..Len(ScanBoxes) |-> <<>>]
    /\ folderName = <<>>
    /\ pc = "scan" /\ outcome = "running" /\ im_client = 0 /\ si = 1
    /\ allEmails = <<>> /\ duplicateGroups = <<>> /\ gi = 1 /\ planned = <<>>
    /\ choices = <<>> /\ typed = <<>> /\ answer = <<>> /\ toDelete = <<>> /\ sorted = <<>>
    /\ ei = 0 /\ attempts = 0 /\ result = "none" /\ hist = <<>>
    /\ last = NoCall /\ mutated = FALSE /\ stale = {}
    /\ emails = <<>> /\ windows = <<>> /\ messages = <<>> /\ closed = FALSE /\ done = <<>>
    /\ fetchers = {} /\ saved = {}
    /\ listed = ScanBoxes /\ targetFolder = <<>> /\ trashbox = <<>> /\ store = <<>>
    /\ step = "window"
    /\ wi = 1
    /\ mboxMessages \in 0..(Pow2(UintBits) - 1)

\* the windows one run of the loop is followed for
MaxWindows == Pow2(UintBits)

\* "for i := uint32(1); i <= mbox.Messages; i += batchSize": one iteration,
\* or the end of the loop
WindowLoop ==
    /\ pc = "scan" /\ step = "window"
    /\ IF InLoop(wi, mboxMessages)
       THEN /\ Len(windows) < MaxWindows
            /\ windows' = Append(windows, <<wi, WindowTo(wi, mboxMessages, batchSize)>>)
            /\ wi' = NextStart(wi, batchSize)
            /\ UNCHANGED step
       ELSE step' = "idle" /\ UNCHANGED << wi, windows >>
    /\ UNCHANGED << givenVars, laterVars, pc, outcome, si, allEmails, mboxMessages, emails,
                    messages, closed, done, fetchers, saved, last, mutated, stale >>

NextW == WindowLoop

SpecWindows == InitW /\ [][NextW]_vars


(* ----------------------------- properties ------------------------------ *)
Dups == {"dedup", "trash"}

\* deleteMailbox has just returned to main: result and hist are those of the
\* action that ended
JustReturned ==
    /\ tool = "delfolder" /\ result # "none"
    /\ (pc = "done" \/ (pc = "exec" /\ step = "loop" /\ attempts = 0))

AllFailed(h) == \A i \in 1..Len(h) : h[i] \in {"invalid", "noconn"}

CountIn(q, x) == Cardinality({i \in 1..Len(q) : q[i] = x})

\* d lies below a in the server's hierarchy
IsDescendant(d, a) == HasPrefix(d, Append(a, delim))

\* the answers that are "yes" once trimmed and lower-cased
YesAnswers ==
    { <<"y", "e", "s", "\n">>, <<"Y", "E", "S", "\n">>, <<" ", "Y", "e", "s", " ", "\r", "\n">>,
      <<"y", "e", "s">> }

\* C1: in both duplicates tools a mutating command is given to the session
\* only during execution, and from the first one on the plan and the
\* decisions never change again: planning is over before execution starts.
C1_PlanBeforeMutation ==
    [][(tool \in Dups /\ mutated') => (pc = "exec" /\ planned' = planned /\ choices' = choices)]_vars

C1_Witness ==
    /\ tool \in Dups /\ mutated
    /\ Len(duplicateGroups) = 2 /\ Len(choices) = 2 /\ Len(planned) = 2

\* C2: under --dry-run no mutating command is ever given to the session, in
\* the duplicates tools and in the delete-folder tool.
C2_DryRunNeverMutates == dryRun => ~mutated

C2_Witness ==
    /\ dryRun /\ tool = "dedup" /\ ~autoMode
    /\ pc = "done" /\ outcome = "dry run" /\ Len(planned) = 3

\* C3: outside dry-run, mutating commands are given only during execution,
\* execution (and the sort before it) is entered only from the confirmation
\* prompt with an answer that is "yes" once trimmed and lower-cased, and any
\* other answer ends the run without a mutating command.
C3_ExecutionNeedsYes ==
    [][~dryRun =>
         /\ (mutated' => pc = "exec")
         /\ ((pc' \in {"exec", "sort"} /\ pc \notin {"exec", "sort"})
                => (pc = "confirmed" /\ answer \in YesAnswers))
         /\ ((pc = "confirmed" /\ answer \notin YesAnswers) => (pc' = "done" /\ ~mutated'))]_vars

C3_Witness == tool = "dedup" /\ autoMode /\ ~dryRun /\ mutated /\ pc = "done"

\* C4: for every group decided with a keep index, the kept member is not in
\* the plan and every other member is in it exactly once.
C4_ResolutionInvariant ==
    \A g \in 1..Len(choices) :
        choices[g] # NoChoice =>
            LET em == duplicateGroups[g].Emails
            IN /\ choices[g] \in 0..(Len(em) - 1)
               /\ \A j \in 1..Len(em) :
                     CountIn(planned, em[j]) = IF j - 1 = choices[g] THEN 0 ELSE 1

C4_Witness ==
    \E g \in 1..Len(choices) : choices[g] = 2 /\ Len(duplicateGroups[g].Emails) = 4

\* C5: in the sorted list every mailbox that lies below another one in the
\* server's hierarchy comes before it.
C5_DescendantsFirst ==
    \A i, j \in 1..Len(sorted) : IsDescendant(sorted[i], sorted[j]) => i < j

\* C6: when the first two attempts of a mailbox deletion fail with a
\* session-invalidity error the action is not given up, and when the third
\* attempt then succeeds deleteMailbox returns success.
C6_ThirdAttemptSucceeds ==
    (/\ JustReturned
     /\ Len(hist) >= 2 /\ hist[1] = "invalid" /\ hist[2] = "invalid"
     /\ (Len(hist) = 2 \/ hist[3] = "ok"))
        => result = "nil"

C6_Witness == JustReturned /\ hist = <<"invalid", "invalid", "ok">> /\ result = "nil"

\* C7 as stated: three consecutive session-invalidity failures are followed
\* by a further attempt, the action is not yet abandoned.
C7_ThreeFailuresRetried ==
    ~(JustReturned /\ result = "abandoned" /\ hist = <<"invalid", "invalid", "invalid">>)

\* C7 as amended: an action is abandoned exactly when three iterations have
\* failed (a session-invalidity error at a step, or a failed reconnect): two
\* failures are followed by a further iteration, three are not, and the
\* abandonment is returned as an error.
C7_AbandonedAtThird ==
    /\ (JustReturned /\ result = "abandoned") => (Len(hist) = 3 /\ AllFailed(hist))
    /\ (JustReturned /\ AllFailed(hist)) => (Len(hist) = 3 /\ result = "abandoned")
    /\ (tool = "delfolder" /\ pc = "exec" /\ Len(hist) >= 3 /\ AllFailed(hist))
          => (Len(hist) = 3 /\ step = "loop")

C7_Witness ==
    JustReturned /\ result = "abandoned" /\ hist = <<"invalid", "invalid", "invalid">>

\* C8: when a step of a mailbox deletion fails with an error that is not a
\* session-invalidity error, deleteMailbox has returned that error: the
\* failed command is the last one of the action, on the handle still in use.
C8_OtherErrorReturns ==
    (tool = "delfolder" /\ last.act >= 1 /\ last.res = "error")
        => /\ result = "error"
           /\ im_client = last.sess
           /\ \/ pc = "done" /\ ei = last.act
              \/ pc = "exec" /\ ei = last.act + 1 /\ attempts = 0 /\ step \in {"loop", "select"}

C8_Witness ==
    /\ tool = "delfolder" /\ last.res = "error" /\ last.cmd = "expunge" /\ last.att = 2
    /\ pc = "exec"

\* C9: the command that follows a session-invalidity failure within the same
\* mailbox deletion is the read-write select of the same mailbox, on a new
\* session handle.
C9_RestartFromSelect ==
    [][(/\ tool = "delfolder" /\ last' # last
        /\ last.act >= 1 /\ last.res = "invalid" /\ last'.act = last.act)
          => (/\ last'.cmd = "select" /\ last'.rw /\ last'.mbox = last.mbox
              /\ last'.sess # last.sess /\ last'.sess = im_client')]_vars

C9_Witness ==
    /\ tool = "delfolder" /\ last.cmd = "select" /\ last.att = 1 /\ last.act = 2
    /\ last.res = "invalid" /\ mboxMessages > 0

\* C10: the command that follows a session-invalidity failure of a plan
\* action, in the same or in a later action, goes to another session handle.
C10_NoCommandOnStaleHandle ==
    [][(tool = "delfolder" /\ last' # last /\ last.act >= 1 /\ last.res = "invalid")
          => last'.sess # last.sess]_vars

\* C11: in the duplicates tools, the command that follows the first
\* session-invalidity failure of a message action (delete or move to trash)
\* belongs to the same action and is its first step again, the read-write
\* select, given to a new session handle.
C11_MessageActionRetried ==
    [][(/\ tool \in Dups /\ last' # last
        /\ last.act >= 1 /\ last.res = "invalid")
          => (/\ last'.act = last.act /\ last'.cmd = "select" /\ last'.rw
              /\ last'.sess # last.sess)]_vars

\* the first action of the plan
FirstStep == IF tool = "delfolder" THEN "loop" ELSE "select"

\* C12: during execution every action of the plan is attempted, in plan
\* order, whatever the earlier actions returned: a command is given to the
\* session for action 1 first and then for each next action in turn, main
\* goes from an action to the next one only, and it ends only after a command
\* was given for the last action.
C12_EveryActionAttempted ==
    [][/\ (last' # last /\ last'.act >= 1) => (pc = "exec" /\ last'.act = ei /\ ei \in 1..Len(Plan))
       /\ (pc = "exec" /\ ei' # ei) => (ei' = ei + 1 /\ last'.act = ei /\ pc' = "exec" /\ step' = FirstStep)
       /\ (pc # "exec" /\ pc' = "exec") => (ei' = 1 /\ step' = FirstStep /\ Plan' # <<>>)
       /\ (pc = "exec" /\ pc' # "exec")
             => (pc' = "done" /\ outcome' = "completed" /\ ei = Len(Plan) /\ last'.act = Len(Plan))]_vars

C12_Witness ==
    /\ tool = "trash" /\ pc = "exec" /\ ei = 3 /\ result = "error"
    /\ last.act = 3 /\ last.cmd = "select" /\ last.res = "ok"

\* findDuplicates has returned
Grouped == tool \in Dups /\ pc \notin {"scan", "group"}

\* where a record was discovered by the scan
Position(e) == CHOOSE i \in 1..Len(allEmails) : allEmails[i] = e

\* in how many places of the emitted groups a record stands
Places(e) ==
    Cardinality({gj \in (1..Len(duplicateGroups)) \X (1..MaxEmails + 1) :
                    /\ gj[2] <= Len(duplicateGroups[gj[1]].Emails)
                    /\ duplicateGroups[gj[1]].Emails[gj[2]] = e})

\* C13: findDuplicates partitions the scanned records by fingerprint: a group
\* holds records of the input that carry the group's fingerprint, in scan
\* discovery order; no group has fewer than two members; two groups never
\* have the same fingerprint; a record that shares its fingerprint with
\* another one stands in exactly one place of the groups, and a record with
\* a fingerprint of its own in none.
C13_GroupingIsPartition ==
    Grouped =>
        /\ \A g \in 1..Len(duplicateGroups) :
              LET em == duplicateGroups[g].Emails
              IN /\ Len(em) > 1
                 /\ \A j \in 1..Len(em) :
                       em[j] \in Range(allEmails) /\ em[j].Hash = duplicateGroups[g].Hash
                 /\ \A j, k \in 1..Len(em) : j < k => Position(em[j]) < Position(em[k])
        /\ \A g, h \in 1..Len(duplicateGroups) :
              duplicateGroups[g].Hash = duplicateGroups[h].Hash => g = h
        /\ \A i \in 1..Len(allEmails) :
              Places(allEmails[i]) =
                 IF \E k \in 1..Len(allEmails) : k # i /\ allEmails[k].Hash = allEmails[i].Hash
                 THEN 1 ELSE 0

C13_Witness ==
    /\ Grouped /\ Len(allEmails) = 4 /\ Len(duplicateGroups) = 1
    /\ Len(duplicateGroups[1].Emails) = 3
    /\ duplicateGroups[1].Emails[1].Mailbox # duplicateGroups[1].Emails[3].Mailbox

\* the keep index promptForChoice returns when it reads nothing
KeepUnprompted(n) ==
    IF tool = "trash" THEN promptForChoiceTrash(n, dryRun, <<>>)[1]
    ELSE promptForChoice(n, dryRun, autoMode, <<>>)[1]

\* the plan main builds from the groups gs when no prompt is read
RECURSIVE PlanFrom(_, _, _)
PlanFrom(acc, gs, k) ==
    IF k > Len(gs) THEN acc
    ELSE PlanFrom(AppendOthers(acc, gs[k].Emails, KeepUnprompted(Len(gs[k].Emails)), 0), gs, k + 1)

\* C14: the plan a dry run reports is the same for every value
\* findDuplicates can return for the records that were scanned: a second
\* dry run over the same records reports the same actions in the same order.
C14_DryRunPlanDetermined ==
    (tool \in Dups /\ dryRun /\ pc = "done")
        => \A gs \in findDuplicates(allEmails) : PlanFrom(<<>>, gs, 1) = planned

\* the members of the first n groups without their first member
RECURSIVE Tails(_, _)
Tails(gs, n) == IF n = 0 THEN <<>> ELSE Tails(gs, n - 1) \o Tail(gs[n].Emails)

\* C15: with --auto or --dry-run the prompt returns keep index 0 whatever
\* could be read, every decided group has keep index 0, and the plan is made
\* of the members 1..n-1 of each decided group, group after group.
C15_FirstMemberKept ==
    (tool \in Dups /\ (autoMode \/ dryRun)) =>
        /\ \A n \in 2..MaxEmails, in \in PromptInputs :
              IF tool = "trash" THEN promptForChoiceTrash(n, dryRun, in) = <<0, FALSE>>
              ELSE promptForChoice(n, dryRun, autoMode, in) = <<0, FALSE>>
        /\ \A g \in 1..Len(choices) : choices[g] = 0
        /\ planned = Tails(duplicateGroups, Len(choices))

C15_Witness ==
    /\ tool = "dedup" /\ autoMode /\ ~dryRun /\ pc = "exec"
    /\ Len(choices) = 1 /\ Len(duplicateGroups[1].Emails) = 3
    /\ planned = <<duplicateGroups[1].Emails[2], duplicateGroups[1].Emails[3]>>

\* the prompt of this run reads what the user types
Manual == tool \in Dups /\ ~dryRun /\ ~autoMode

\* the inputs that hold a number, by the number
Numbered ==
    << <<"1", "\n">>, <<"2", "\n">>, <<" ", "3", " ", "\n">>, <<"4", "\n">>, <<"5", "\n">> >>

\* for a group of n members: the skip signal, text that is no number, a
\* number outside 1..n, and input that ends before the newline; 'q' is no
\* number for the trash tool, which has no early exit
SkipInputs(n) ==
    { <<"s", "\n">>, <<"S", "\n">>, <<"a", "\n">>, <<"\n">>, <<"0", "\n">>, <<"-", "1", "\n">>,
      <<"1">>, <<>> }
      \cup {Numbered[k] : k \in (n + 1)..Len(Numbered)}
      \cup (IF tool = "trash" THEN { <<"q", "\n">>, <<"Q", "\n">> } ELSE {})

C17_EarlyExit ==
    [][tool = "dedup" =>
         /\ (Manual /\ pc = "plan" /\ typed' \in { <<"q", "\n">>, <<"Q", "\n">> })
               => (/\ planned' = planned /\ choices' = Append(choices, NoChoice)
                   /\ gi' = gi /\ pc' = "summary")
         /\ (pc # "plan" /\ pc # "group")
               => (pc' # "plan" /\ choices' = choices /\ planned' = planned /\ gi' = gi)
         /\ (pc = "summary" /\ planned # <<>> /\ ~dryRun) => pc' = "confirmed"
         /\ (pc = "confirmed" /\ answer \in YesAnswers) => (pc' = "exec" /\ ei' = 1)]_vars

C17_Witness ==
    /\ tool = "dedup" /\ Manual /\ pc = "exec" /\ mutated
    /\ Len(duplicateGroups) = 2 /\ gi = 2 /\ choices = <<1, NoChoice>>
    /\ planned = <<duplicateGroups[1].Emails[1]>>

\* C18: at most one goroutine fetches at any time, and it fetches the window
\* of the mailbox the scan is at; the fetch of a window is started only when
\* no earlier fetch runs, the record channel of the window before is closed
\* and empty and its status has been taken from the channel done; and the
\* status is taken only after the record channel was found closed and empty.
C18_OneRetrievalAtATime ==
    [][/\ Cardinality(fetchers') <= 1
       /\ \A g \in fetchers' :
             pc' = "scan" /\ g.box = si' /\ g.from = wi' /\ step' \in {"range", "status"}
       /\ (step = "window" /\ step' = "range")
             => (/\ fetchers = {} /\ messages = <<>> /\ done = <<>>
                 /\ (windows # <<>> => closed))
       /\ (done # <<>> /\ done' = <<>>)
             => (step = "status" /\ messages = <<>> /\ closed /\ fetchers = {})]_vars

C18_Witness ==
    /\ tool = "dedup" /\ pc = "scan" /\ step = "range"
    /\ windows = << <<1, 2>>, <<3, 4>> >> /\ Len(emails) = 2
    /\ fetchers # {} /\ messages = <<3>>

\* scanMailbox returns without a record and main goes on with the next
\* mailbox, or to grouping after the last one
Skipped ==
    /\ allEmails' = allEmails
    /\ si' = si + 1
    /\ pc' = (IF si < Len(srvBoxes) THEN "scan" ELSE "group")
    /\ step' = (IF si < Len(srvBoxes) THEN "select" ELSE "idle")
    /\ outcome' = "running"

\* C19: in the duplicates tools a mailbox whose select fails, or one of whose
\* fetches reports an error (be it after every record was received), adds
\* nothing to allEmails and main goes on with the next mailbox; allEmails
\* grows only by the records of a mailbox whose window loop came to its end.
C19_FailedScanContributesNothing ==
    [][(tool \in Dups /\ pc = "scan") =>
         /\ (step = "select" /\ last'.res # "ok") => Skipped
         /\ (step = "status" /\ done # <<>> /\ Head(done) # "ok") => Skipped
         /\ (allEmails' # allEmails)
               => (/\ step = "window" /\ ~InLoop(wi, mboxMessages)
                   /\ last.res = "ok"
                   /\ allEmails' = allEmails \o emails
                   /\ \A i \in 1..Len(emails) : emails[i].Mailbox = srvBoxes[si])]_vars

C19_Witness ==
    /\ tool = "dedup" /\ pc = "scan" /\ si = 2 /\ step = "select"
    /\ Len(srvMail[1]) = 3 /\ allEmails = <<>>
    /\ last.cmd = "fetch" /\ last.res = "error" /\ last.mbox = srvBoxes[1]

Min(a, b) == IF a < b THEN a ELSE b

\* C20: the k-th window the loop asks for is [(k-1)B + 1, min(kB, N)] and is
\* not empty (the windows are contiguous from 1, ascending, disjoint, of at
\* most B messages, inside [1, N]); when the loop has ended, the last window
\* ends at N, and no window was asked for when N = 0.
C20_WindowsPartition ==
    (tool \in Scanners /\ pc = "scan") =>
        /\ \A k \in 1..Len(windows) :
              /\ windows[k][1] = (k - 1) * batchSize + 1
              /\ windows[k][2] = Min(k * batchSize, mboxMessages)
              /\ windows[k][1] <= windows[k][2]
        /\ step = "idle" =>
              IF mboxMessages = 0 THEN windows = <<>>
              ELSE windows # <<>> /\ windows[Len(windows)][2] = mboxMessages

\* the command c belongs to the same attempt of the same mailbox deletion as
\* the command before it, which succeeded
Follows(c, before) ==
    /\ last.cmd = before /\ last.res = "ok"
    /\ c.act = last.act /\ c.att = last.att /\ c.sess = last.sess /\ c.mbox = last.mbox

\* C23: in a mailbox deletion every command is a select, a store, an expunge
\* or a delete of the mailbox in hand; an attempt begins with its only
\* select, which is read-write; the store follows a successful select that
\* reported messages, the expunge a successful store, and the delete a
\* successful expunge or a successful select that reported no message, always
\* within the same attempt: the mailbox is never deleted when it held
\* messages and the expunge did not succeed.
C23_StepOrder ==
    [][(tool = "delfolder" /\ last' # last /\ last'.act >= 1) =>
         /\ last'.cmd \in {"select", "store", "expunge", "delete"}
         /\ last'.mbox = sorted[ei]
         /\ last'.cmd = "select"
               => (last'.rw /\ ~(last.act = last'.act /\ last.att = last'.att))
         /\ last'.cmd = "store" => (Follows(last', "select") /\ mboxMessages > 0)
         /\ last'.cmd = "expunge" => (Follows(last', "store") /\ mboxMessages > 0)
         /\ last'.cmd = "delete"
               => \/ Follows(last', "expunge") /\ mboxMessages > 0
                  \/ Follows(last', "select") /\ mboxMessages = 0]_vars

C23_Witness ==
    /\ tool = "delfolder" /\ pc = "exec" /\ step = "delete" /\ mboxMessages > 0
    /\ last.cmd = "expunge" /\ last.res = "ok" /\ last.att = 1 /\ last.act = 2

\* how far a step of deleteMailbox is from the end of its iteration
StepRank ==
    CASE step = "loop" -> 5 [] step = "select" -> 4 [] step = "store" -> 3
      [] step = "expunge" -> 2 [] step = "delete" -> 1 [] OTHER -> 0

\* what is left of deleteMailbox at most: whole iterations, then steps
Remaining == (MaxAttempts - attempts) * 6 + StepRank

\* main is in deleteMailbox for the k-th mailbox
Deleting(k) == tool = "delfolder" /\ pc = "exec" /\ ei = k

\* C30: deleteMailbox terminates whatever its commands and reconnects
\* answer.  It never runs more than 3 iterations, and its commands belong to
\* iterations 0, 1 and 2, a select to an iteration that has had none; every
\* step inside a deletion brings it closer to its end; a reconnect that
\* fails gives no command, keeps the handle and uses up its iteration; when
\* 3 iterations are used the deletion returns the 'failed after 3 attempts'
\* error; and every deletion that is begun returns to main: the deletions
\* run one after the other, and main gets past the last of them.
C30_DeleteMailboxTerminates ==
    /\ [][tool = "delfolder" /\ pc = "exec" =>
            /\ attempts' \in 0..MaxAttempts
            /\ (last' # last)
                  => (last'.att = attempts /\ attempts < MaxAttempts /\ last'.act = ei)
            /\ (last' # last /\ last'.cmd = "select") => step = "select"
            /\ (pc' = "exec" /\ ei' = ei) => Remaining' < Remaining
            /\ (step = "loop" /\ attempts > 0 /\ attempts < MaxAttempts /\ im_client' = im_client)
                  => (/\ last' = last /\ mutated' = mutated
                      /\ attempts' = attempts + 1 /\ step' = "loop" /\ ei' = ei)
            /\ (step = "loop" /\ attempts = MaxAttempts)
                  => (result' = "abandoned" /\ last' = last /\ (ei' = ei + 1 \/ pc' = "done"))]_vars
    /\ Deleting(ei) ~> (pc = "done")

C30_Witness ==
    /\ Deleting(2) /\ step = "loop" /\ attempts = 0 /\ result = "abandoned"
    /\ hist = <<"invalid", "noconn", "invalid">> /\ last.att = 2 /\ last.cmd = "expunge"

\* where the mailbox x stands in the list q
IndexIn(q, x) == CHOOSE i \in 1..Len(q) : q[i] = x

\* C25: the sorted list is a rearrangement of the list that was found, no
\* mailbox comes before a deeper one, and two mailboxes of the same depth
\* stand in the order in which they were found.
C25_SortIsStable ==
    (tool = "delfolder" /\ sorted # <<>>) =>
        /\ Len(sorted) = Len(toDelete) /\ Range(sorted) = Range(toDelete)
        /\ IsSortedByDepth(sorted)
        /\ \A i, j \in 1..Len(toDelete) :
              (i < j /\ Depth(toDelete[i]) = Depth(toDelete[j]))
                  => IndexIn(sorted, toDelete[i]) < IndexIn(sorted, toDelete[j])

\* C29: every mailbox findMailboxesForDeletion returns is the folder the
\* argument names or lies below it in the server's hierarchy (the argument,
\* the delimiter, and more); a mailbox whose name merely begins with the
\* same characters is not returned.
C29_OnlyFolderAndDescendants ==
    tool = "delfolder" =>
        \A i \in 1..Len(toDelete) :
            toDelete[i] = folderName \/ IsDescendant(toDelete[i], folderName)

\* C26: in manual mode a prompt that reads 'a' keeps the first member of its
\* group: every other member is added to the plan, in group order, and the
\* decision loop goes on with the next group.
C26_AutoSelectKeepsFirst ==
    [][(Manual /\ pc = "plan" /\ typed' = <<"a", "\n">>)
          => (/\ choices' = Append(choices, 0)
              /\ planned' = planned \o Tail(duplicateGroups[gi].Emails)
              /\ gi' = gi + 1
              /\ pc' = (IF gi = Len(duplicateGroups) THEN "summary" ELSE "plan"))]_vars

\* setup is over and main was not ended by it
SetUp == pc \notin {"connect", "list"} /\ outcome # "fatal"

\* the term stands in the name at offset i, letters compared without case
StandsAt(term, name, i) ==
    /\ i + Len(term) <= Len(name)
    /\ \A j \in 1..Len(term) : LowerChar(name[i + j]) = term[j]

\* what listMailboxes of the deleting tool is to return of the listed names
Wanted(name) ==
    /\ ~\E k \in 1..Len(excludedFolders), i \in 0..Len(name) : StandsAt(excludedFolders[k], name, i)
    /\ (targetFolder # <<>> =>
          /\ Len(name) >= Len(targetFolder)
          /\ \A j \in 1..Len(targetFolder) : name[j] = targetFolder[j])

\* C21: what listMailboxes of the deleting tool returns holds listed names
\* only, none that contains an exclusion term whatever the case of its
\* letters, none that does not start with the target prefix when one is
\* configured; it holds every listed name of that kind; and its names stand
\* in the order of the listing, none twice.
C21_ListIsFilteredSubsequence ==
    (tool = "dedup" /\ SetUp) =>
        /\ \A i \in 1..Len(srvBoxes) : srvBoxes[i] \in Range(listed) /\ Wanted(srvBoxes[i])
        /\ \A k \in 1..Len(listed) : Wanted(listed[k]) => listed[k] \in Range(srvBoxes)
        /\ \A i, j \in 1..Len(srvBoxes) :
              i < j => IndexIn(listed, srvBoxes[i]) < IndexIn(listed, srvBoxes[j])

C21_Witness ==
    /\ tool = "dedup" /\ pc = "scan" /\ targetFolder = <<"W">>
    /\ listed = << <<"W", "/", "a">>, <<"W", "/", "B", "I", "N">>, <<"W">> >>
    /\ srvBoxes = << <<"W", "/", "a">>, <<"W">> >>

\* the listing the run is at has failed
ListFails == last'.cmd = "list" /\ last'.res # "ok"

\* C22: a run whose listing fails, whose target prefix is configured and
\* kept no mailbox, or (trash tool) in whose listing no trash folder is
\* found, ends there with an error; a run that ended so has selected no
\* mailbox, scanned no message and given no mutating command, and takes no
\* further step; and a run that goes on after setup with a target prefix
\* has at least one mailbox to scan, and in the trash tool a trash folder
\* that was listed.
C22_SetupFailureIsFatal ==
    [][/\ outcome # "fatal"
       /\ (pc \in {"connect", "list"} /\ last' # last /\ ListFails) => outcome' = "fatal"
       /\ (pc = "list" /\ tool = "dedup" /\ targetFolder # <<>>
              /\ \A k \in 1..Len(listed) : ~Wanted(listed[k]))
             => outcome' = "fatal"
       /\ (pc = "connect" /\ tool = "trash" /\ last' # last
              /\ \A k \in 1..Len(listed) : ~IsTrashName(listed[k]))
             => outcome' = "fatal"
       /\ outcome' = "fatal"
             => (/\ pc' = "done" /\ ~mutated' /\ last'.cmd \in {"none", "list"}
                 /\ srvBoxes' = <<>> /\ allEmails' = <<>> /\ windows' = <<>> /\ fetchers' = {}
                 /\ planned' = <<>>)
       /\ (pc = "list" /\ pc' # "list" /\ outcome' # "fatal")
             => (/\ targetFolder # <<>> => srvBoxes' # <<>>
                 /\ tool = "trash" => (trashbox' \in Range(listed) /\ IsTrashName(trashbox')))]_vars

C22_Witness ==
    /\ tool = "dedup" /\ pc = "done" /\ outcome = "fatal" /\ targetFolder = <<"W">>
    /\ listed = << <<"w">>, <<"W", "/", "B", "I", "N">>, <<"I", "n">> >>
    /\ last.cmd = "list" /\ last.res = "ok"

\* the UIDs of the messages msgs
Uids(msgs) == {msgs[k].uid : k \in 1..Len(msgs)}

\* the mailbox of the action in hand, among the followed ones
Here == BoxIndex(planned[ei].Mailbox)

\* C27: when the expunge of deleteEmail succeeds, and deleteEmail with it,
\* the message of the action has left its mailbox, every other message of
\* that mailbox is still there (be it flagged \Deleted or not), and the other
\* mailboxes are as they were.
C27_DeleteRemovesOnlyPlanned ==
    [][(tool = "dedup" /\ pc = "exec" /\ step = "expunge" /\ last'.res = "ok" /\ Here # 0) =>
         /\ planned[ei].Uid \notin Uids(store'[Here])
         /\ \A k \in 1..Len(store[Here]) :
               store[Here][k].uid # planned[ei].Uid => store[Here][k].uid \in Uids(store'[Here])
         /\ \A b \in DOMAIN store : b # Here => store'[b] = store[b]]_vars

\* the members that were chosen to be kept are in their mailboxes
KeptPresent ==
    \A g \in 1..Len(choices) :
        choices[g] # NoChoice =>
            LET kept == duplicateGroups[g].Emails[choices[g] + 1]
            IN kept.Uid \in Uids(store[BoxIndex(kept.Mailbox)])

\* C28: when the move of moveToTrash succeeds, the message that has left the
\* mailbox is the one whose UID the action recorded at scan time, and no
\* other; and no member that was chosen to be kept ever leaves its mailbox.
C28_MoveTakesPlannedMessage ==
    [][(tool = "trash" /\ pc = "exec" /\ Here # 0) =>
         /\ (step = "move" /\ last'.res = "ok")
               => (/\ Uids(store'[Here]) = Uids(store[Here]) \ {planned[ei].Uid}
                   /\ \A b \in DOMAIN store : b # Here => store'[b] = store[b])
         /\ KeptPresent']_vars

\* the contents of the parts of a message whose type is text/plain,
\* text/html or application/*, in part order
RECURSIVE IncludedParts(_, _)
IncludedParts(parts, k) ==
    IF k > Len(parts) THEN <<>>
    ELSE (IF \E t \in {TextPlain, TextHtml, Application} : HasPrefix(parts[k].ctype, t)
          THEN <<parts[k].body>> ELSE <<>>) \o IncludedParts(parts, k + 1)

\* the two messages of the mailbox
MailA == srvMail[1][1]

MailB == srvMail[1][2]

\* both messages were given a fingerprint
BothHashed == tool = "trash" /\ pc = "scan" /\ messages = <<>> /\ Len(emails) = 2

Running == {g \in fetchers : IsCurrent(g)}

\* the channels are within their capacities, a window has one goroutine at
\* most, and a goroutine that is about to send its status finds the channel
\* done empty: the send does not wait
SendNeverWaits ==
    /\ Len(messages) <= ChanCap /\ Len(done) <= DoneCap
    /\ Cardinality(fetchers) <= 1 /\ fetchers = Running
    /\ \A g \in fetchers : g.st = "returned" => (Len(done) < DoneCap /\ closed)
    /\ (fetchers = {} /\ pc = "scan" /\ step = "range") => (closed /\ Len(done) = 1)

\* the foreground is in the range loop of a window
InRange == pc = "scan" /\ tool \in Scanners /\ step = "range"

\* the foreground is at "<-done"
AtStatus == pc = "scan" /\ tool \in Scanners /\ step = "status"

\* C31: the goroutine of a window and the loop that consumes its records do
\* not deadlock, whatever the number of records of the window is beside the
\* capacity of the record channel, and whether the fetch succeeds or fails.
\* The status send never waits; the range loop is left only when the
\* channel is closed and drained, and it is left; the status is received
\* only when the goroutine has sent it and ended, and it is received, after
\* which the foreground goes on with the next window or returns.
C31_NoDeadlock ==
    /\ [][SendNeverWaits']_vars
    /\ [][(InRange /\ ~InRange') => (AtStatus' /\ messages = <<>> /\ closed)]_vars
    /\ [][(AtStatus /\ ~AtStatus')
             => (/\ done # <<>> /\ fetchers = {}
                 /\ \/ Head(done) = "ok" /\ pc' = "scan" /\ step' = "window"
                    \/ Head(done) # "ok" /\ (si' = si + 1 \/ pc' # "scan"))]_vars
    /\ InRange ~> AtStatus
    /\ AtStatus ~> ~AtStatus

\* a window of more records than the record channel holds was consumed, all
\* of its records were saved, the status was sent and waits to be received
C31_Witness ==
    /\ AtStatus /\ tool = "backup" /\ done = <<"ok">> /\ fetchers = {}
    /\ windows # <<>> /\ windows[Len(windows)] = <<1, BatchOther>> /\ BatchOther > ChanCap
    /\ \A k \in 1..BatchOther : <<si, k>> \in saved

====
